---- MODULE Spec2Model ----
(***************************************************************************)
(* Acquisition daemon (src/bin/uchino_daqd.rs) and the SKSTACK session     *)
(* bring-up (src/skstack/authn.rs) of uchinopower, as a state machine.     *)
(*                                                                         *)
(* The adapter is the environment: every skstack::receive() call yields    *)
(* one value of RxOutcomes (a parsed SkRxD record or an io::Error), chosen *)
(* freely; every serial write and every sink operation succeeds or fails,  *)
(* chosen freely.                                                          *)
(***************************************************************************)
EXTENDS Integers, Sequences, FiniteSets, TLC

(***************************************************************************)
(* Bounds of the model                                                     *)
(***************************************************************************)
\* number of acquisition cycles the supervisor may start
MaxCycles == 2
\* number of minute ticks of the cron schedule served in one run (all transmitters together)
MaxTicks == 2
\* number of property entries in a received ECHONET Lite frame
MaxOpc == 2
\* number of rows the sink accepts in one run
MaxSink == 2
\* number of minute ticks served when the transmitter is taken alone
MaxTxTicks == 60
\* number of records active_scan reads while it waits for the end of the scan
MaxScanRx == 3
\* number of rows the settings table comes to hold
MaxProfiles == 2
\* number of data bytes of an ERXUDP line given to the parser
MaxUdpData == 2
\* number of pieces (records, stray lines, read timeouts) of a stream given to skstack::receive
MaxChunks == 3

(***************************************************************************)
(* Program constants                                                       *)
(***************************************************************************)
\* const SESSION_LIFETIME_OF_SECOND: u32 = 900
SESSION_LIFETIME_OF_SECOND == 900
\* a rejoin period of the whole session lifetime
session_rejoin_lifetime == SESSION_LIFETIME_OF_SECOND
\* Duration::from_secs_f32(SESSION_LIFETIME_OF_SECOND as f32 * 0.7)
session_rejoin_period == (SESSION_LIFETIME_OF_SECOND * 7) \div 10
\* Schedule::from_str("00 */1 * * * *"): one tick per minute, seconds between ticks
SchedulePeriod == 60
\* Option::None of Event.param, and "no code" of an error value
None == -1

\* EPC codes (smart_electric_energy_meter.rs)
EPC_D3 == 211
EPC_D7 == 215
EPC_E0 == 224
EPC_E1 == 225
EPC_E2 == 226
EPC_E7 == 231
EPC_E8 == 232
EPC_EA == 234

(***************************************************************************)
(* Values                                                                  *)
(***************************************************************************)
\* a decoded ECHONET Lite frame as far as the daemon uses it: its ESV and its
\* property entries
Frame(esv, edata) == [esv |-> esv, edata |-> edata]
\* the data of a record that carries none
NoData == Frame(None, <<>>)

\* SkRxD records and io::Error results of skstack::receive; unused fields are None
Rxd(k, c, p) == [kind |-> k, code |-> c, param |-> p, port |-> None, data |-> NoData]
Erxudp(port, data) == [kind |-> "Erxudp", code |-> None, param |-> None, port |-> port, data |-> data]

\* EchonetliteEdata, an entry of EchonetliteFrame.edata: EPC, PDC and the EDT bytes
\* (the integers 0..255)
EchonetliteEdata(epc, pdc, edt) == [epc |-> epc, pdc |-> pdc, edt |-> edt]

\* DaqDaemonError values; code is the FAIL code of CommandFail
Error(e) == [err |-> e, code |-> None]
CommandFail(code) == [err |-> "CommandFail", code |-> code]
NoResult == Error("none")

\* FAIL ERxx codes the adapter is taken to report
FailCodes == {4, 16}
\* EVENT codes the adapter is taken to report: 0x21 0x24 0x25 0x26 0x27 0x28 0x29,
\* and 0x99, which the receiver's table does not list
EventCodes == {33, 36, 37, 38, 39, 40, 41, 153}
\* Event.param values of EVENT 21: None, 0, 1, 2 and one outside the table
EventParams == {None, 0, 1, 2, 3}
\* destination ports: 0x0E1A (ECHONET Lite), 0x02CC (PANA), one other
Ports == {3610, 716, 4660}
\* property entries carried by received frames: E7 (500 W) and E8 (3.0 A, 1.0 A)
\* well formed, and an EPC outside the smart-meter class (0x80)
Entries ==
    {EchonetliteEdata(EPC_E7, 4, <<0, 0, 1, 244>>), EchonetliteEdata(EPC_E8, 4, <<0, 30, 0, 10>>),
     EchonetliteEdata(128, 1, <<48>>)}

RECURSIVE SeqsUpTo(_, _)
SeqsUpTo(S, n) ==
    IF n = 0 THEN {<<>>}
    ELSE LET prev == SeqsUpTo(S, n - 1)
         IN prev \cup {Append(s, e) : s \in {t \in prev : Len(t) = n - 1}, e \in S}

\* payloads of an ERXUDP: an undecodable byte string, or the edata of a decoded frame
Undecodable == Frame(None, <<EchonetliteEdata(None, None, <<>>)>>)
\* ESV of received frames: 0x72 Get_Res, 0x73 INF, 0x52 Get_SNA
Esvs == {114, 115, 82}
Frames == {Frame(esv, edata) : esv \in Esvs, edata \in SeqsUpTo(Entries, MaxOpc)}
Payloads == Frames \cup {Undecodable}

\* payloads of an ERXUDP on another port: bytes that do not decode, and bytes
\* that would decode to a frame with a stored property
OtherPortPayloads == {Undecodable, Frame(114, <<EchonetliteEdata(EPC_E7, 4, <<0, 0, 1, 244>>)>>)}

\* frames with an entry no decoder returns from: 0xEA with the date 2025-02-29,
\* 0x9F with the count 3 followed by sixteen bytes
ShowPanicPayloads ==
    {Frame(114, <<EchonetliteEdata(EPC_EA, 11, <<7, 233, 2, 29, 0, 0, 0, 0, 0, 1, 0>>)>>),
     Frame(114, <<EchonetliteEdata(159, 17, <<3, 0, 0, 0, 0, 0, 0, 0, 0, 0, 0, 0, 0, 0, 0, 0, 0>>)>>)}

\* a frame with an entry 0xEA whose time point, 1948-05-02 00:30:00, the
\* clock of Tokyo never showed
TimeErrorPayloads ==
    {Frame(114, <<EchonetliteEdata(EPC_EA, 11, <<7, 156, 5, 2, 0, 30, 0, 0, 0, 1, 0>>)>>)}

\* payloads of the ERXUDP records the daemon reads on port 0x0E1A: every
\* frame of ESV Get_Res, one frame of ESV Get_SNA, and an undecodable one
MeterPayloads ==
    {Frame(114, edata) : edata \in SeqsUpTo(Entries, MaxOpc)}
    \cup {Frame(82, <<EchonetliteEdata(EPC_E7, 4, <<0, 0, 1, 244>>)>>), Undecodable}
    \cup ShowPanicPayloads
    \cup TimeErrorPayloads

RxOutcomes ==
    {Rxd("Void", None, None), Rxd("Ok", None, None), Rxd("Epandesc", None, None),
     Rxd("TimedOut", None, None), Rxd("IoError", None, None)}
    \cup {Rxd("Fail", c, None) : c \in FailCodes}
    \cup {Rxd("Event", c, None) : c \in EventCodes}
    \cup {Rxd("Event", 33, p) : p \in EventParams}
    \cup {Erxudp(3610, d) : d \in MeterPayloads}
    \cup {Erxudp(p, d) : p \in Ports \ {3610}, d \in OtherPortPayloads}

\* a record without its payload, as the loops that ignore the payload see it
Header(r) == [r EXCEPT !.data = NoData]
\* the results of skstack::receive as those loops see them
RxHeaders == {Header(r) : r \in RxOutcomes}

\* commands of the transmitter: SKSENDTO with the EPCs of the Get request it
\* carries, and SKREJOIN
Sksendto(frame) == [cmd |-> "SKSENDTO", epcs |-> frame]
Skrejoin == [cmd |-> "SKREJOIN", epcs |-> <<>>]
\* the EPCs of the two request frames
TODAY_CWH == <<EPC_E2>>
INSTANT_WATT_AMPERE == <<EPC_E7, EPC_E8>>

\* seconds from the transmitter's start to the first tick of the schedule
FirstSleep == {15, 45}

(***************************************************************************)
(* authn::connect                                                          *)
(***************************************************************************)
\* authn::Error values and the two non-error outcomes of a loop iteration
Authn(e) == [err |-> e, code |-> None]
AuthnFail(code) == [err |-> "Fail", code |-> code]
Continue == Authn("continue")

\* the seven commands, without their arguments
connect_sequence ==
    <<"SKRESET", "SKSREG SFE 0", "SKSETPWD C", "SKSETRBID", "SKSREG S2", "SKSREG S3", "SKJOIN">>

\* connect_command with the third command replaced by a repetition of the second
connect_command_repeat(k) == connect_sequence[IF k = 3 THEN 2 ELSE k]

\* the command the loop writes in iteration k
connect_command(k) == connect_sequence[k]

\* connect_ack that goes on to the next command after a read timeout
connect_ack_timeout(r) ==
    CASE r.kind = "IoError" -> Authn("Io")
      [] r.kind = "Fail" -> AuthnFail(r.code)
      [] OTHER -> Continue

\* command loop: skstack::receive(reader)? followed by the `if let Fail(code)` test
connect_ack(r) ==
    CASE r.kind \in {"TimedOut", "IoError"} -> Authn("Io")
      [] r.kind = "Fail" -> AuthnFail(r.code)
      [] OTHER -> Continue

\* connect_wait that ignores FAIL
connect_wait_fail(r) ==
    CASE r.kind \in {"Void", "Ok", "Epandesc", "Erxudp", "Fail"} -> Continue
      [] r.kind = "Event" /\ r.code = 36 -> Authn("PanaSessionDisconnected")
      [] r.kind = "Event" /\ r.code = 37 -> Authn("Ok")
      [] r.kind = "Event" -> Continue
      [] r.kind = "TimedOut" -> Continue
      [] OTHER -> Authn("Io")

\* connect_wait that returns the read timeout as an i/o error
connect_wait_timeout(r) ==
    CASE r.kind \in {"Void", "Ok", "Epandesc", "Erxudp"} -> Continue
      [] r.kind = "Fail" -> AuthnFail(r.code)
      [] r.kind = "Event" /\ r.code = 36 -> Authn("PanaSessionDisconnected")
      [] r.kind = "Event" /\ r.code = 37 -> Authn("Ok")
      [] r.kind = "Event" -> Continue
      [] OTHER -> Authn("Io")

\* event loop after SKJOIN: one iteration on the result r of skstack::receive
connect_wait(r) ==
    CASE r.kind \in {"Void", "Ok", "Epandesc", "Erxudp"} -> Continue
      [] r.kind = "Fail" -> AuthnFail(r.code)
      [] r.kind = "Event" /\ r.code = 36 -> Authn("PanaSessionDisconnected")
      [] r.kind = "Event" /\ r.code = 37 -> Authn("Ok")
      [] r.kind = "Event" -> Continue
      [] r.kind = "TimedOut" -> Continue
      [] OTHER -> Authn("Io")

\* impl From<authn::Error> for DaqDaemonError
From_authn_Error(e) ==
    CASE e.err = "Fail" -> CommandFail(e.code)
      [] e.err = "Io" -> Error("Io")
      [] OTHER -> Error("PanaSessionDisconnected")

(***************************************************************************)
(* the property decoders of the smart-meter class and of the super class   *)
(* on an EchonetliteEdata with its edt bytes                               *)
(***************************************************************************)
\* the value of a hexadecimal digit, and the digit of a value
HexChar == <<"0", "1", "2", "3", "4", "5", "6", "7", "8", "9", "A", "B", "C", "D", "E", "F">>
LowerHex == <<"0", "1", "2", "3", "4", "5", "6", "7", "8", "9", "a", "b", "c", "d", "e", "f">>
DigitVal(c) == (CHOOSE k \in 1..16 : HexChar[k] = c \/ LowerHex[k] = c) - 1

\* the digits of a number without its leading zeros, in upper case: the
\* value of a number too wide for the integers of the model
RECURSIVE Canon(_)
Canon(d) ==
    IF d = <<>> THEN <<>>
    ELSE IF d[1] = "0" THEN Canon(Tail(d))
    ELSE [k \in 1..Len(d) |-> HexChar[DigitVal(d[k]) + 1]]

\* the number written by at most seven digits
RECURSIVE HexInt(_)
HexInt(d) == IF d = <<>> THEN 0 ELSE 16 * HexInt(SubSeq(d, 1, Len(d) - 1)) + DigitVal(d[Len(d)])

\* the last n digits of d: a cast to a narrower unsigned type
Low(d, n) == IF Len(d) <= n THEN d ELSE SubSeq(d, Len(d) - n + 1, Len(d))

\* n written with w hexadecimal digits
RECURSIVE Hex(_, _)
Hex(n, w) == IF w = 0 THEN <<>> ELSE Hex(n \div 16, w - 1) \o <<HexChar[(n % 16) + 1]>>

\* results of a TryFrom: Ok(value), Err(String) with the head of its message,
\* or a panic
TOk(variant, val) == [st |-> "Ok", variant |-> variant, val |-> val]
TErr(msg) == [st |-> "Err", msg |-> msg]
TPanic == [st |-> "Panic"]

\* Decimal::new(num, scale)
Decimal(num, scale) == [num |-> num, scale |-> scale]

\* u16::from_be_bytes, i16::from_be_bytes, i32::from_be_bytes
u16_from_be_bytes(a, b) == a * 256 + b
i16_from_be_bytes(a, b) == IF a >= 128 THEN (a - 256) * 256 + b ELSE a * 256 + b
i32_from_be_bytes(a, b, c, d) ==
    (IF a >= 128 THEN a - 256 ELSE a) * 16777216 + b * 65536 + c * 256 + d
\* u32::from_be_bytes: the value as its hexadecimal digits, being too wide
\* for the integers of the model
u32_from_be_bytes(a, b, c, d) == Canon(Hex(a, 2) \o Hex(b, 2) \o Hex(c, 2) \o Hex(d, 2))

\* Coefficient::try_from (0xD3)
Coefficient_try_from(e) ==
    IF e.epc = EPC_D3
    THEN CASE Len(e.edt) = 1 -> TOk("Coefficient", e.edt[1])
           [] Len(e.edt) = 0 -> TOk("Coefficient", 1)
           [] OTHER -> TErr("BAD")
    ELSE TErr("BAD")

\* NumberOfEffectiveDigits::try_from (0xD7)
NumberOfEffectiveDigits_try_from(e) ==
    IF Len(e.edt) = 1 /\ e.epc = EPC_D7 THEN TOk("NumberOfEffectiveDigits", e.edt[1]) ELSE TErr("BAD")

\* CumlativeAmountsPower::try_from (0xE0)
CumlativeAmountsPower_try_from(e) ==
    IF Len(e.edt) = 4 /\ e.epc = EPC_E0
    THEN TOk("CumlativeAmountsPower", u32_from_be_bytes(e.edt[1], e.edt[2], e.edt[3], e.edt[4]))
    ELSE TErr("BAD")

\* the unit bytes of 0xE1 and their Decimal
UnitTable ==
    [b \in {0, 1, 2, 3, 4, 10, 11, 12, 13} |->
        CASE b = 0 -> Decimal(1, 0) [] b = 1 -> Decimal(1, 1) [] b = 2 -> Decimal(1, 2)
          [] b = 3 -> Decimal(1, 3) [] b = 4 -> Decimal(1, 4) [] b = 10 -> Decimal(10, 0)
          [] b = 11 -> Decimal(100, 0) [] b = 12 -> Decimal(1000, 0) [] OTHER -> Decimal(10000, 0)]

\* UnitForCumlativeAmountsPower::try_from (0xE1)
UnitForCumlativeAmountsPower_try_from(e) ==
    IF Len(e.edt) = 1 /\ e.epc = EPC_E1 /\ e.edt[1] \in DOMAIN UnitTable
    THEN TOk("UnitForCumlativeAmountsPower", UnitTable[e.edt[1]])
    ELSE TErr("BAD")

\* the loop over xs.chunks_exact(4) of HistoricalCumlativeAmount::try_from:
\* 0xFFFFFFFE is None
Quadruples(xs) ==
    [k \in 1..(Len(xs) \div 4) |->
        LET dword == u32_from_be_bytes(xs[4 * k - 3], xs[4 * k - 2], xs[4 * k - 1], xs[4 * k])
        IN IF dword = <<"F", "F", "F", "F", "F", "F", "F", "E">> THEN <<>> ELSE <<dword>>]

\* HistoricalCumlativeAmount::try_from (0xE2)
HistoricalCumlativeAmount_try_from(e) ==
    IF Len(e.edt) >= 2 /\ e.epc = EPC_E2
    THEN TOk("HistoricalCumlativeAmount",
             [n_days_ago |-> u16_from_be_bytes(e.edt[1], e.edt[2]),
              historical |-> Quadruples(SubSeq(e.edt, 3, Len(e.edt)))])
    ELSE TErr("BAD")

\* InstantiousPower::try_from (0xE7)
InstantiousPower_try_from(e) ==
    IF Len(e.edt) = 4 /\ e.epc = EPC_E7
    THEN TOk("InstantiousPower", Decimal(i32_from_be_bytes(e.edt[1], e.edt[2], e.edt[3], e.edt[4]), 0))
    ELSE TErr("BAD")

\* InstantiousCurrent::try_from (0xE8): t = 0x7FFE is None
InstantiousCurrent_try_from(e) ==
    IF Len(e.edt) = 4 /\ e.epc = EPC_E8
    THEN LET r == i16_from_be_bytes(e.edt[1], e.edt[2])
             t == i16_from_be_bytes(e.edt[3], e.edt[4])
         IN TOk("InstantiousCurrent",
                [r |-> Decimal(r, 1), t |-> IF t = 32766 THEN <<>> ELSE <<Decimal(t, 1)>>])
    ELSE TErr("BAD")

\* NaiveDate::from_ymd_opt(..).and_then(and_hms_opt(..)) is Some
DaysInMonth(year, month) ==
    CASE month \in {4, 6, 9, 11} -> 30
      [] month = 2 -> IF (year % 4 = 0 /\ year % 100 # 0) \/ year % 400 = 0 THEN 29 ELSE 28
      [] OTHER -> 31
ValidDateTime(year, month, day, hour, minute, second) ==
    /\ month \in 1..12
    /\ day \in 1..DaysInMonth(year, month)
    /\ hour < 24
    /\ minute < 60
    /\ second < 60

\* CumlativeAmountsOfPowerAtFixedTime::try_from (0xEA): the unwrap of a date
\* that is none panics
CumlativeAmountsOfPowerAtFixedTime_try_from(e) ==
    IF Len(e.edt) = 11 /\ e.epc = EPC_EA
    THEN LET year == u16_from_be_bytes(e.edt[1], e.edt[2])
         IN IF ValidDateTime(year, e.edt[3], e.edt[4], e.edt[5], e.edt[6], e.edt[7])
            THEN TOk("CumlativeAmountsOfPowerAtFixedTime",
                     [time_point |-> <<year, e.edt[3], e.edt[4], e.edt[5], e.edt[6], e.edt[7]>>,
                      cumlative_amounts_power |-> u32_from_be_bytes(e.edt[8], e.edt[9], e.edt[10], e.edt[11])])
            ELSE TPanic
    ELSE TErr("BAD")

\* the chain `if let Ok(a) = .. else if ..` of Properties::try_from over the
\* decoders ds, in their order: the first Ok, a panic where it happens, or the
\* Err of the chain
RECURSIVE try_chain(_, _)
try_chain(ds, e) ==
    IF ds = <<>> THEN TErr("UNKNOWN")
    ELSE IF Head(ds).st = "Err" THEN try_chain(Tail(ds), e)
    ELSE Head(ds)

\* smart_electric_energy_meter::Properties::try_from
SM_Properties_try_from(e) ==
    try_chain(<<Coefficient_try_from(e), NumberOfEffectiveDigits_try_from(e),
                CumlativeAmountsPower_try_from(e), UnitForCumlativeAmountsPower_try_from(e),
                HistoricalCumlativeAmount_try_from(e), InstantiousPower_try_from(e),
                InstantiousCurrent_try_from(e), CumlativeAmountsOfPowerAtFixedTime_try_from(e)>>, e)

EPC_8A == 138
EPC_9F == 159
EPC_D5 == 213

\* the table of GetPropertyMap::try_from: the properties whose bit is set,
\* sorted; bit col of props[row] stands for 0x80 + 0x10 * col + row
PropertyBitmap(rest) ==
    SelectSeq([k \in 1..128 |-> 127 + k],
              LAMBDA c : (rest[(c % 16) + 1] \div (2 ^ ((c - 128) \div 16))) % 2 = 1)

\* GetPropertyMap::try_from (0x9F): copy_from_slice into a vector of length 0
\* panics unless props is empty; props[row] panics when props is shorter than 16
GetPropertyMap_try_from(e) ==
    IF Len(e.edt) >= 1 /\ e.epc = EPC_9F
    THEN LET count == e.edt[1]
             rest == Tail(e.edt)
         IN IF count < 16
            THEN IF rest = <<>> THEN TOk("GetPropertyMap", <<>>) ELSE TPanic
            ELSE IF Len(rest) < 16 THEN TPanic ELSE TOk("GetPropertyMap", PropertyBitmap(rest))
    ELSE TErr("BAD")

\* Manufacturer::try_from (0x8A): the three bytes in hexadecimal
Manufacturer_try_from(e) ==
    IF Len(e.edt) = 3 /\ e.epc = EPC_8A
    THEN TOk("Manufacturer", Hex(e.edt[1], 2) \o Hex(e.edt[2], 2) \o Hex(e.edt[3], 2))
    ELSE TErr("BAD")

\* NotifyInstances::try_from (0xD5): the whole triples after the count byte
NotifyInstances_try_from(e) ==
    IF Len(e.edt) >= 1 /\ e.epc = EPC_D5
    THEN TOk("NotifyInstances",
             [count |-> e.edt[1],
              instances |-> [k \in 1..((Len(e.edt) - 1) \div 3) |-> SubSeq(e.edt, 3 * k - 1, 3 * k + 1)]])
    ELSE TErr("BAD")

\* superclass::Properties::try_from: the decoder of 0x9F is called first, and
\* the next ones only when it returned
superclass_Properties_try_from(e) ==
    IF GetPropertyMap_try_from(e).st # "Err" THEN GetPropertyMap_try_from(e)
    ELSE try_chain(<<Manufacturer_try_from(e), NotifyInstances_try_from(e)>>, e)

\* EchonetliteEdata::show: the smart-meter class, then the super class, then "UNKNOWN EPC"
Edata_show(e) ==
    IF SM_Properties_try_from(e).st # "Err" THEN SM_Properties_try_from(e)
    ELSE IF superclass_Properties_try_from(e).st # "Err" THEN superclass_Properties_try_from(e)
    ELSE TErr("UNKNOWN")

(***************************************************************************)
(* smartmeter_receiver, rx_erxudp, commit_to_database                      *)
(***************************************************************************)
\* receiver_event that ends the receiver on EVENT 26 as well
receiver_event_26(code, param) ==
    IF code \in {36, 38, 39, 40, 41} THEN Error("PanaSessionDisconnected") ELSE Error("continue")

\* the match on event.code: "continue" (trace only) or the error returned
receiver_event(code, param) ==
    IF code \in {36, 39, 40, 41} THEN Error("PanaSessionDisconnected") ELSE Error("continue")

\* SM::Properties::try_from on an entry: the variant it decodes to, "Err" when
\* no decoder accepts it, "Panic" when a decoder panics
Properties_try_from(e) ==
    LET r == SM_Properties_try_from(e)
    IN CASE r.st = "Ok" -> r.variant
         [] r.st = "Panic" -> "Panic"
         [] OTHER -> "Err"

(***************************************************************************)
(* chrono and chrono_tz::Asia::Tokyo as the commit functions use them. A    *)
(* NaiveDateTime is [day, secs]: the days since 1970-01-01 and the seconds  *)
(* of the day; a DateTime<Tz> is the UTC date and time with the offset of   *)
(* the zone at that moment, in seconds                                     *)
(***************************************************************************)
NaiveDateTime(day, secs) == [day |-> day, secs |-> secs]
DateTime(utc, offset) == [utc |-> utc, offset |-> offset]

\* a NaiveDateTime s seconds later (earlier for a negative s)
plus_seconds(t, s) == NaiveDateTime(t.day + (t.secs + s) \div 86400, (t.secs + s) % 86400)
\* a is b or earlier
not_after(a, b) == a.day < b.day \/ (a.day = b.day /\ a.secs <= b.secs)

\* NaiveDate::from_ymd_opt(year, month, day) of a date of the calendar, as
\* the days since 1970-01-01
days_from_civil(year, month, day) ==
    LET y == IF month <= 2 THEN year - 1 ELSE year
        era == y \div 400
        yoe == y - era * 400
        doy == (153 * ((month + 9) % 12) + 2) \div 5 + day - 1
        doe == yoe * 365 + yoe \div 4 - yoe \div 100 + doy
    IN era * 146097 + doe - 719468

\* the time spans of Asia::Tokyo, each from its first UTC moment on: local
\* mean time (UTC+9:18:59) before 1887-12-31 15:00 UTC, standard time (UTC+9)
\* since, and summer time (UTC+10) from the first Saturday of May (of April
\* in 1949) to the second Saturday of September in 1948, 1949, 1950 and 1951.
\* The first span starts before NaiveDate::MIN
TokyoSpans ==
    <<[from |-> NaiveDateTime(0 - 100000000, 0), offset |-> 33539],
      [from |-> NaiveDateTime(0 - 29951, 54000), offset |-> 32400],
      [from |-> NaiveDateTime(0 - 7915, 54000), offset |-> 36000],
      [from |-> NaiveDateTime(0 - 7782, 54000), offset |-> 32400],
      [from |-> NaiveDateTime(0 - 7579, 54000), offset |-> 36000],
      [from |-> NaiveDateTime(0 - 7418, 54000), offset |-> 32400],
      [from |-> NaiveDateTime(0 - 7180, 54000), offset |-> 36000],
      [from |-> NaiveDateTime(0 - 7054, 54000), offset |-> 32400],
      [from |-> NaiveDateTime(0 - 6816, 54000), offset |-> 36000],
      [from |-> NaiveDateTime(0 - 6690, 54000), offset |-> 32400]>>

\* the UTC moment utc lies in span i
span_contains(i, utc) ==
    /\ not_after(TokyoSpans[i].from, utc)
    /\ i < Len(TokyoSpans) => ~not_after(TokyoSpans[i + 1].from, utc)

\* TimeZone::offset_from_utc_datetime: the offset of the span of the moment
offset_from_utc_datetime(utc) ==
    TokyoSpans[CHOOSE i \in DOMAIN TokyoSpans : span_contains(i, utc)].offset

\* TimeZone::offset_from_local_datetime: the LocalResult as the set of the
\* offsets under which a clock of Tokyo shows local: none in the hour a
\* summer time skips, two in the time a clock set back shows again
offset_from_local_datetime(local) ==
    {TokyoSpans[i].offset :
        i \in {j \in DOMAIN TokyoSpans : span_contains(j, plus_seconds(local, 0 - TokyoSpans[j].offset))}}

\* TimeZone::from_local_datetime: the LocalResult as the set of its DateTime<Tz>
from_local_datetime(local) ==
    {DateTime(plus_seconds(local, 0 - o), o) : o \in offset_from_local_datetime(local)}

\* Asia::Tokyo.with_ymd_and_hms of a date and a time that exist
with_ymd_and_hms(year, month, day, hour, min, sec) ==
    from_local_datetime(NaiveDateTime(days_from_civil(year, month, day), hour * 3600 + min * 60 + sec))

\* LocalResult::single: Some of the one DateTime, None (the empty set) otherwise
single(r) == IF Cardinality(r) = 1 THEN r ELSE {}

\* DateTime::naive_local: what the clock of the zone shows
naive_local(datetime) == plus_seconds(datetime.utc, datetime.offset)

\* Utc::now().with_timezone(&Asia::Tokyo): the same moment with the offset of Tokyo
with_timezone_jst(now) == DateTime(now, offset_from_utc_datetime(now))
\* datetime.with_timezone(&Utc): the UTC date and time of the moment
with_timezone_utc(datetime) == datetime.utc

\* DateTime<Tz>::checked_sub_days: the same time of day n days earlier on the
\* clock of Tokyo, None when the zone has no such time or has it twice
checked_sub_days(datetime, n) ==
    single(from_local_datetime(NaiveDateTime(naive_local(datetime).day - n, naive_local(datetime).secs)))

\* DateTime<Tz>::checked_add_signed: the moment s seconds later
checked_add_signed(datetime, s) == with_timezone_jst(plus_seconds(datetime.utc, s))

\* with_ymd_and_hms(jst_now.year(), jst_now.month(), jst_now.day(), 0, 0, 0)
\* .single().and_then(checked_sub_days): midnight of the day of jst_now on the
\* clock of Tokyo, then midnight n_days_ago days earlier; None is the empty set
hist_day(jst_now, n_days_ago) ==
    UNION {checked_sub_days(jst_today, n_days_ago) :
              jst_today \in single(from_local_datetime(NaiveDateTime(naive_local(jst_now).day, 0)))}

\* Decimal::from(val) * unit.0, val given by its hexadecimal digits
kwh_of(val, u) == Decimal(HexInt(val) * u.num, u.scale)

\* histrical_kwh whose time series runs over the usable values only
RECURSIVE histrical_kwh_shifted(_, _, _)
histrical_kwh_shifted(historical, datetime, u) ==
    IF historical = <<>> THEN <<>>
    ELSE IF Head(historical) = <<>> THEN histrical_kwh_shifted(Tail(historical), datetime, u)
    ELSE <<[recorded_at |-> with_timezone_utc(datetime), kwh |-> kwh_of(Head(historical)[1], u)]>>
         \o histrical_kwh_shifted(Tail(historical), checked_add_signed(datetime, 1800), u)

\* histrical_kwh: hist.historical zipped with the time series that starts at
\* datetime and goes on by half hours, then the None dropped by flatten
RECURSIVE histrical_kwh(_, _, _)
histrical_kwh(historical, datetime, u) ==
    IF historical = <<>> THEN <<>>
    ELSE (IF Head(historical) = <<>> THEN <<>>
          ELSE <<[recorded_at |-> with_timezone_utc(datetime), kwh |-> kwh_of(Head(historical)[1], u)]>>)
         \o histrical_kwh(Tail(historical), checked_add_signed(datetime, 1800), u)

\* commit_historical_cumlative_amount: Other("time calculate error") when the
\* midnight is None; else one INSERT with the rows of push_values: without a
\* row the statement ends after VALUES and the database refuses it;
\* `execute(pool).await?` returns the error of the database
commit_historical_cumlative_amount(hist, u, now, sinkOk) ==
    LET day == hist_day(with_timezone_jst(now), hist.n_days_ago)
        rows == histrical_kwh(hist.historical, CHOOSE d \in day : TRUE, u)
    IN IF day = {} THEN [st |-> "Other", rows |-> <<>>, written |-> <<>>]
       ELSE IF rows # <<>> /\ sinkOk
       THEN [st |-> "Ok", rows |-> rows, written |-> rows]
       ELSE [st |-> "Database", rows |-> rows, written |-> <<>>]

\* commit_cumlative_amount_epower: Other("time calculate error") when the
\* time point is no time of the clock of Tokyo or is one twice; else one
\* INSERT of the time point in UTC and of the kWh
commit_cumlative_amount_epower(u, epower, sinkOk) ==
    LET t == epower.time_point
        jst == single(with_ymd_and_hms(t[1], t[2], t[3], t[4], t[5], t[6]))
        rows == <<[recorded_at |-> with_timezone_utc(CHOOSE d \in jst : TRUE),
                   kwh |-> kwh_of(epower.cumlative_amounts_power, u)]>>
    IN IF jst = {} THEN [st |-> "Other", rows |-> <<>>, written |-> <<>>]
       ELSE IF sinkOk
       THEN [st |-> "Ok", rows |-> rows, written |-> rows]
       ELSE [st |-> "Database", rows |-> rows, written |-> <<>>]

\* recorded_at of rx_erxudp: the minute of now on the clock of Tokyo, taken
\* as a time of that clock again and brought to UTC; None (the empty set,
\* Other("time calculate error")) when the clock shows that minute twice
rx_erxudp_recorded_at(now) ==
    LET jst == naive_local(with_timezone_jst(now))
    IN {with_timezone_utc(modified) :
           modified \in single(from_local_datetime(NaiveDateTime(jst.day, (jst.secs \div 60) * 60)))}

\* the arm of rx_erxudp in smartmeter_receiver: `.await?` returns the error,
\* otherwise the loop goes on
receiver_after_commit(res) == IF res.st = "Ok" THEN "running" ELSE "returned"

\* the match of commit_to_database: the table the variant is inserted into, or
\* "none" for the variants that are only logged (Ok(v) => warn, Err(e) => error)
commit_table(v) ==
    CASE v = "HistoricalCumlativeAmount" -> "cumlative_amount_epower"
      [] v = "InstantiousPower" -> "instant_epower"
      [] v = "InstantiousCurrent" -> "instant_current"
      [] v = "CumlativeAmountsOfPowerAtFixedTime" -> "cumlative_amount_epower"
      [] OTHER -> "none"

\* one iteration of the loop of commit_to_database on entry e at the moment
\* now, the sink operation succeeding (sinkOk) or not: the `?` after .await
\* returns the error of the commit function (Database, or Other for a time
\* that cannot be calculated); a panic of the decoder unwinds the receiver
\* task ("Panic"). The unit of the profile has no part in the outcome
commit_entry(e, now, sinkOk) ==
    LET v == Properties_try_from(e)
        val == SM_Properties_try_from(e).val
        st == CASE v = "HistoricalCumlativeAmount" ->
                       commit_historical_cumlative_amount(val, UnitTable[1], now, sinkOk).st
                [] v = "CumlativeAmountsOfPowerAtFixedTime" ->
                       commit_cumlative_amount_epower(UnitTable[1], val, sinkOk).st
                [] OTHER -> IF sinkOk THEN "Ok" ELSE "Database"
    IN CASE v = "Panic" -> Error("Panic")
         [] commit_table(v) = "none" -> Error("continue")
         [] st = "Ok" -> Error("continue")
         [] OTHER -> Error(st)

\* the log of rx_erxudp after commit_to_database: `v.show(Some(unit))` on every
\* entry of the frame, which panics where a decoder does
rx_erxudp_show(edata) ==
    IF \E i \in 1..Len(edata) : Edata_show(edata[i]).st = "Panic" THEN "panic" ELSE "ok"

\* rx_erxudp that hands over the entries of Get_Res and INF frames only
rx_erxudp_esv(r) ==
    IF r.port = 3610 /\ r.data # Undecodable /\ r.data.esv \in {114, 115} THEN r.data.edata ELSE <<>>

\* rx_erxudp that decodes the payload whatever the destination port
rx_erxudp_anyport(r) ==
    IF r.data # Undecodable THEN r.data.edata ELSE <<>>

\* rx_erxudp up to the call of commit_to_database: the entries handed to it
rx_erxudp(r) ==
    IF r.port = 3610 /\ r.data # Undecodable THEN r.data.edata ELSE <<>>

\* smartmeter_receiver that only logs FAIL
smartmeter_receiver_fail(r) ==
    CASE r.kind \in {"Void", "Ok", "Epandesc", "Erxudp", "TimedOut", "Fail"} -> Error("continue")
      [] r.kind = "Event" -> receiver_event(r.code, r.param)
      [] OTHER -> Error("Io")

\* one iteration of the loop of smartmeter_receiver on the result r of
\* skstack::receive, apart from the Erxudp arm: "continue" or the error returned
smartmeter_receiver(r) ==
    CASE r.kind \in {"Void", "Ok", "Epandesc", "Erxudp", "TimedOut"} -> Error("continue")
      [] r.kind = "Fail" -> CommandFail(r.code)
      [] r.kind = "Event" -> receiver_event(r.code, r.param)
      [] OTHER -> Error("Io")

(***************************************************************************)
(* main                                                                    *)
(***************************************************************************)
\* main_match without the restart after a session loss
main_match_exit(res) == res.err \in {"Ok"}

\* main_match that restarts after an i/o error
main_match_io(res) == res.err \in {"Ok", "PanaSessionDisconnected", "Io"}

\* the match on the_service_provider().await: TRUE for the arms that sleep and
\* `continue`, FALSE for the arms that break out of the loop with a reason
main_match(res) == res.err \in {"Ok", "PanaSessionDisconnected"}

\* return values of pairing: Ok(Some(settings)) with the descriptor the
\* settings are made of, Ok(None), Err(why), and the panic of an unwrap
PSome(desc) == [kind |-> "Some", desc |-> desc, why |-> "none"]
PNotFound == [kind |-> "None", desc |-> None, why |-> "none"]
PErr(why) == [kind |-> "Err", desc |-> None, why |-> why]
PPanic == [kind |-> "Panic", desc |-> None, why |-> "none"]
PRunning == [kind |-> "none", desc |-> None, why |-> "none"]

(***************************************************************************)
(* active_scan and pairing                                                 *)
(***************************************************************************)
\* the four commands of active_scan, without their arguments
pairing_sequence == <<"SKRESET", "SKSETPWD C", "SKSETRBID", "SKSCAN">>

\* the PAN descriptors a scan can report
Descs == {1, 2}
\* an EPANDESC record carrying descriptor d
Epandesc(d) == Rxd("Epandesc", d, None)
\* EVENT codes met during a scan: 0x20 beacon, 0x21 UDP sent, 0x22 scan done
ScanEvents == {32, 33, 34}
\* results of skstack::receive during active_scan
ScanOutcomes ==
    {Rxd("Void", None, None), Rxd("Ok", None, None), Rxd("TimedOut", None, None),
     Rxd("IoError", None, None), Erxudp(3610, Undecodable)}
    \cup {Rxd("Fail", c, None) : c \in FailCodes}
    \cup {Rxd("Event", c, None) : c \in ScanEvents}
    \cup {Epandesc(d) : d \in Descs}

\* scan_ack that goes on to the next command after FAIL
scan_ack_fail(r) ==
    CASE r.kind \in {"TimedOut", "IoError"} -> "Io"
      [] OTHER -> "continue"

\* command loop of active_scan: skstack::receive(port_reader)? and the test for Fail
scan_ack(r) ==
    CASE r.kind \in {"TimedOut", "IoError"} -> "Io"
      [] r.kind = "Fail" -> "bail"
      [] OTHER -> "continue"

\* scan_wait that takes the beacon event for the end of the scan
scan_wait_beacon(r) ==
    CASE r.kind \in {"Void", "Ok", "Erxudp", "TimedOut"} -> "continue"
      [] r.kind = "Fail" -> "break"
      [] r.kind = "Event" -> "break"
      [] r.kind = "Epandesc" -> "push"
      [] OTHER -> "Io"

\* wait loop of active_scan: one iteration on the result r of skstack::receive
scan_wait(r) ==
    CASE r.kind \in {"Void", "Ok", "Erxudp", "TimedOut"} -> "continue"
      [] r.kind = "Fail" -> "break"
      [] r.kind = "Event" -> IF r.code = 32 THEN "continue" ELSE "break"
      [] r.kind = "Epandesc" -> "push"
      [] OTHER -> "Io"

\* the EPCs pairing requests, one Get request each: 0xE1, 0x9F, 0xD3, 0xD7
props == <<EPC_E1, 159, EPC_D3, EPC_D7>>

\* payloads of the ERXUDP records met during the property waits
\* the unit bytes 01 and 05 (outside the table), a property map with a bitmap and
\* one with the count 3 followed by sixteen bytes, coefficients, digits
PairPayloads ==
    {Undecodable,
     Frame(114, <<EchonetliteEdata(EPC_E1, 1, <<1>>)>>),
     Frame(114, <<EchonetliteEdata(EPC_E1, 1, <<5>>)>>),
     Frame(114, <<EchonetliteEdata(159, 17, <<24, 1, 2, 0, 0, 0, 0, 0, 64, 0, 0, 128, 0, 0, 0, 0, 1>>)>>),
     Frame(114, <<EchonetliteEdata(159, 17, <<3, 0, 0, 0, 0, 0, 0, 0, 0, 0, 0, 0, 0, 0, 0, 0, 0>>)>>),
     Frame(114, <<EchonetliteEdata(EPC_D3, 1, <<1>>)>>), Frame(82, <<EchonetliteEdata(EPC_D3, 0, <<>>)>>),
     Frame(114, <<EchonetliteEdata(EPC_D7, 1, <<6>>)>>)}
\* results of skstack::receive during the property waits (the match of pairing
\* has no arm for SkRxD::Void)
PairOutcomes ==
    {Rxd("Ok", None, None), Rxd("TimedOut", None, None), Rxd("IoError", None, None),
     Rxd("Fail", 16, None), Rxd("Event", 33, None), Epandesc(1), Erxudp(716, Undecodable)}
    \cup {Erxudp(3610, d) : d \in PairPayloads}

\* property wait of pairing: one iteration on the result r of skstack::receive;
\* the payload of an ERXUDP is decoded with unwrap(), whatever its port, and
\* every entry of the frame is formatted with `{}` for the log, which panics
\* where a decoder does
pairing_wait(r) ==
    CASE r.kind \in {"Ok", "Fail", "Event", "Epandesc"} -> "continue"
      [] r.kind = "Erxudp" ->
            IF r.data = Undecodable THEN "panic"
            ELSE IF \E i \in 1..Len(r.data.edata) : Edata_show(r.data.edata[i]).st = "Panic" THEN "panic"
            ELSE "decoded"
      [] r.kind = "TimedOut" -> "break"
      [] OTHER -> "Io"

\* an entry of the frame decodes to the variant v
Decodes(frame, v) == \E i \in 1..Len(frame.edata) : Properties_try_from(frame.edata[i]) = v

\* the end of pairing: `if let (Some(unit), Some(coeff))` under `if let Some(epandesc) = found.first()`
pairing_result(f, u, c) == IF f # <<>> /\ u /\ c THEN PSome(f[1]) ELSE PNotFound

(***************************************************************************)
(* the stored settings and their conversion in exec_data_acquisition        *)
(***************************************************************************)
\* a string of n characters ch
Chars(n, ch) == [i \in 1..n |-> ch]

\* ConnectionSettings, the three fields exec_data_acquisition converts
Settings(id, password, mac) == [RouteBId |-> id, RouteBPassword |-> password, MacAddress |-> mac]

\* Id::from_str that accepts up to 32 characters
Id_from_str_short(s) == Len(s) <= 32

\* Id::from_str: s.chars().collect::<Vec<char>>().try_into() to [char; 32]
Id_from_str(s) == Len(s) = 32

\* Password::from_str: s.chars().collect::<Vec<char>>().try_into() to [char; 12]
Password_from_str(s) == Len(s) = 12

HexDigits == {"0", "1", "2", "3", "4", "5", "6", "7", "8", "9",
              "a", "b", "c", "d", "e", "f", "A", "B", "C", "D", "E", "F"}

\* the digit loop of u64::from_str_radix(src, 16) from position i on, n being
\* the number of hexadecimal digits of the value accumulated so far (0 while
\* the value is 0): "InvalidDigit" at a character that is no digit,
\* "PosOverflow" when the value needs a 17th digit, "ok" at the end
RECURSIVE from_str_radix_digits(_, _, _)
from_str_radix_digits(src, i, n) ==
    IF i > Len(src) THEN "ok"
    ELSE IF src[i] \notin HexDigits THEN "InvalidDigit"
    ELSE LET m == IF n = 0 /\ src[i] = "0" THEN 0 ELSE n + 1
         IN IF m > 16 THEN "PosOverflow" ELSE from_str_radix_digits(src, i + 1, m)

\* u64::from_str_radix(src, 16): empty input, one optional "+" (never "-" for
\* an unsigned type) that must be followed by a digit, then the digits
u64_from_str_radix(src) ==
    IF src = <<>> THEN "Empty"
    ELSE IF Len(src) = 1 /\ src[1] \in {"+", "-"} THEN "InvalidDigit"
    ELSE from_str_radix_digits(src, IF src[1] = "+" THEN 2 ELSE 1, 0)

\* exec_data_acquisition from read_settings to the serial port: the three
\* conversions in the order of the code, each with `?`
exec_credentials(st) ==
    IF ~Id_from_str(st.RouteBId) THEN "InvalidId"
    ELSE IF ~Password_from_str(st.RouteBPassword) THEN "InvalidPassword"
    ELSE IF u64_from_str_radix(st.MacAddress) # "ok" THEN "InvalidMacAddress"
    ELSE "ok"

\* format!("{:X}", addr) of a u64 given by its digits: upper case, no leading zero
format_upper_hex(addr) == IF Canon(addr) = <<>> THEN <<"0">> ELSE Canon(addr)

\* the ConnectionSettings pairing returns for the credentials it was given and
\* the descriptor of address addr, as far as exec_data_acquisition converts them
connection_settings(id, password, addr) == Settings(id, password, format_upper_hex(addr))

\* addresses of the meters the pairing program may have found: 001D129012345678,
\* 0, 021D129012345678 and FFFFFFFFFFFFFFFF
PairedAddrs ==
    {<<"0", "0", "1", "D", "1", "2", "9", "0", "1", "2", "3", "4", "5", "6", "7", "8">>,
     Chars(16, "0"),
     <<"0", "2", "1", "D", "1", "2", "9", "0", "1", "2", "3", "4", "5", "6", "7", "8">>,
     Chars(16, "F")}

\* identifiers, passwords and MAC addresses of stored settings
StoredIds == {Chars(n, "0") : n \in {0, 31, 32, 33}}
StoredPasswords == {Chars(n, "A") : n \in {0, 11, 12, 13}}
StoredMacs ==
    {<<>>,
     Chars(16, "F"),
     <<"0", "0", "1", "D", "1", "2", "9", "0", "1", "2", "3", "4", "5", "6", "7", "8">>,
     <<"0", "0", "1", "d", "1", "2", "9", "0", "1", "2", "3", "4", "5", "6", "7", "8">>,
     <<"0", "0", "1", "D", "1", "2", "9", "0", "1", "2", "3", "4", "5", "6", "7", "G">>,
     <<"0">> \o Chars(16, "F"),
     Chars(17, "F"),
     <<"+", "1", "D">>, <<"-", "1", "D">>, <<"+">>, <<"0", "x", "1", "D">>, <<"1", "D", " ">>}
\* settings as pairing stores them for the meter 001D129012345678
ValidSettings ==
    connection_settings(Chars(32, "0"), Chars(12, "A"),
                        <<"0", "0", "1", "D", "1", "2", "9", "0", "1", "2", "3", "4", "5", "6", "7", "8">>)
\* the rows the settings table is taken to hold: the rows pairing stores for
\* the meters it may have found, and rows of which one field at a time
\* differs from the valid settings, or all three do
StoredSettings ==
    {connection_settings(Chars(32, "0"), Chars(12, "A"), a) : a \in PairedAddrs}
    \cup {[ValidSettings EXCEPT !.RouteBId = i] : i \in StoredIds}
    \cup {[ValidSettings EXCEPT !.RouteBPassword = p] : p \in StoredPasswords}
    \cup {[ValidSettings EXCEPT !.MacAddress = m] : m \in StoredMacs}
    \cup {Settings(<<>>, <<>>, <<>>)}

\* the settings the daemon is started with: the valid ones, and ones with a
\* wrong identifier, password or MAC address
DaemonSettings ==
    {ValidSettings,
     [ValidSettings EXCEPT !.RouteBId = Chars(31, "0")],
     [ValidSettings EXCEPT !.RouteBPassword = Chars(13, "A")],
     [ValidSettings EXCEPT !.MacAddress = Chars(17, "F")]}

(***************************************************************************)
(* skstack::parser: the text of the adapter and parse_rxd                  *)
(* Text is a sequence of characters. A parser applied to the text s at     *)
(* position i gives Ok with the position after what it consumed and its    *)
(* value, Error, or Incomplete.                                            *)
(***************************************************************************)
POk(pos, val) == [st |-> "Ok", pos |-> pos, val |-> val]
PError == [st |-> "Error", pos |-> 0, val |-> <<>>]
PIncomplete == [st |-> "Incomplete", pos |-> 0, val |-> <<>>]

\* the first position from i on that holds no character of S
RECURSIVE SpanEnd(_, _, _)
SpanEnd(s, i, S) == IF i <= Len(s) /\ s[i] \in S THEN SpanEnd(s, i + 1, S) ELSE i

\* nom::bytes::complete::tag
tag(s, i, t) ==
    IF i + Len(t) - 1 <= Len(s) /\ SubSeq(s, i, i + Len(t) - 1) = t THEN POk(i + Len(t), t) ELSE PError

\* streaming_tag replaced by the complete tag
streaming_tag_complete(s, i, t) == tag(s, i, t)

\* nom::bytes::streaming::tag: Error at a character that differs, Incomplete
\* when the text ends before the tag does
streaming_tag(s, i, t) ==
    LET avail == Len(s) - i + 1
        n == IF avail < Len(t) THEN avail ELSE Len(t)
    IN IF SubSeq(s, i, i + n - 1) # SubSeq(t, 1, n) THEN PError
       ELSE IF avail < Len(t) THEN PIncomplete
       ELSE POk(i + Len(t), t)

\* nom::character::complete::{crlf, space0, space1, hex_digit1}
crlf(s, i) == tag(s, i, <<"\r", "\n">>)
Blanks == {" ", "\t"}
space0(s, i) == POk(SpanEnd(s, i, Blanks), <<>>)
space1(s, i) == IF SpanEnd(s, i, Blanks) = i THEN PError ELSE POk(SpanEnd(s, i, Blanks), <<>>)
hex_digit1(s, i) ==
    IF SpanEnd(s, i, HexDigits) = i THEN PError
    ELSE POk(SpanEnd(s, i, HexDigits), SubSeq(s, i, SpanEnd(s, i, HexDigits) - 1))

\* map_res(hex_digit1, from_str_radix) for a type of w hexadecimal digits:
\* Error when the value does not fit
hex_digit_of(s, i, w) ==
    LET h == hex_digit1(s, i)
    IN IF h.st # "Ok" THEN h
       ELSE IF Len(Canon(h.val)) > w THEN PError
       ELSE POk(h.pos, Canon(h.val))

\* u8_hex_digit, u16_hex_digit: the value is a number; u64_hex_digit: the
\* value is the digits of the number
u8_hex_digit(s, i) ==
    LET h == hex_digit_of(s, i, 2) IN IF h.st # "Ok" THEN h ELSE POk(h.pos, HexInt(h.val))
u16_hex_digit(s, i) ==
    LET h == hex_digit_of(s, i, 4) IN IF h.st # "Ok" THEN h ELSE POk(h.pos, HexInt(h.val))
u64_hex_digit(s, i) == hex_digit_of(s, i, 16)

\* u8_hex_digit2: take_while_m_n(2, 2, is_ascii_hexdigit)
u8_hex_digit2(s, i) ==
    IF i + 1 <= Len(s) /\ s[i] \in HexDigits /\ s[i + 1] \in HexDigits
    THEN POk(i + 2, HexInt(SubSeq(s, i, i + 1)))
    ELSE PError

\* many0(u8_hex_digit2)
RECURSIVE many0_u8_hex_digit2(_, _, _)
many0_u8_hex_digit2(s, i, acc) ==
    LET b == u8_hex_digit2(s, i)
    IN IF b.st = "Ok" THEN many0_u8_hex_digit2(s, b.pos, Append(acc, b.val)) ELSE POk(i, acc)

\* separated_list1(tag(":"), hex_digit1) after its first element
RECURSIVE separated_list1_rest(_, _, _)
separated_list1_rest(s, i, acc) ==
    LET c == tag(s, i, <<":">>)
        h == hex_digit1(s, c.pos)
    IN IF c.st # "Ok" THEN POk(i, acc)
       ELSE IF h.st # "Ok" THEN POk(i, acc)
       ELSE separated_list1_rest(s, h.pos, Append(acc, h.val))

\* ipv6addr: the groups joined by ":" parse as an Ipv6Addr when they are
\* eight groups of at most four digits; the value is the eight segments
ipv6addr(s, i) ==
    LET h == hex_digit1(s, i)
        l == separated_list1_rest(s, h.pos, <<h.val>>)
    IN IF h.st # "Ok" THEN h
       ELSE IF Len(l.val) # 8 \/ \E k \in 1..Len(l.val) : Len(l.val[k]) > 4 THEN PError
       ELSE POk(l.pos, [k \in 1..8 |-> HexInt(l.val[k])])

\* SkRxD
SkVoid == [kind |-> "Void"]
SkOk == [kind |-> "Ok"]
SkFail(code) == [kind |-> "Fail", code |-> code]
SkEvent(code, sender, param) == [kind |-> "Event", code |-> code, sender |-> sender, param |-> param]
SkErxudp(sender, destination, sender_port, destination_port, senderlla, secured, datalen, data) ==
    [kind |-> "Erxudp", sender |-> sender, destination |-> destination,
     sender_port |-> sender_port, destination_port |-> destination_port,
     senderlla |-> senderlla, secured |-> secured, datalen |-> datalen, data |-> data]
SkEpandesc(channel, channel_page, pan_id, addr, lqi, pair_id) ==
    [kind |-> "Epandesc", channel |-> channel, channel_page |-> channel_page,
     pan_id |-> pan_id, addr |-> addr, lqi |-> lqi, pair_id |-> pair_id]

\* map((space0, crlf), |_| SkRxD::Void)
rx_void(s) ==
    LET e == crlf(s, space0(s, 1).pos)
    IN IF e.st # "Ok" THEN e ELSE POk(e.pos, SkVoid)

rx_ok(s) ==
    LET a == tag(s, 1, <<"O", "K">>)
        e == crlf(s, a.pos)
    IN IF a.st # "Ok" THEN a
       ELSE IF e.st # "Ok" THEN e
       ELSE POk(e.pos, SkOk)

rx_fail(s) ==
    LET a == tag(s, 1, <<"F", "A", "I", "L", " ", "E", "R">>)
        c == u8_hex_digit2(s, a.pos)
        e == crlf(s, c.pos)
    IN IF a.st # "Ok" THEN a
       ELSE IF c.st # "Ok" THEN c
       ELSE IF e.st # "Ok" THEN e
       ELSE POk(e.pos, SkFail(c.val))

rx_event(s) ==
    LET a == tag(s, 1, <<"E", "V", "E", "N", "T">>)
        b == space1(s, a.pos)
        code == u8_hex_digit(s, b.pos)
        c == space1(s, code.pos)
        sender == ipv6addr(s, c.pos)
        d == space0(s, sender.pos)
        p == u8_hex_digit(s, d.pos)
        param == IF p.st = "Ok" THEN p ELSE POk(d.pos, None)
        e == crlf(s, param.pos)
    IN IF a.st # "Ok" THEN a
       ELSE IF b.st # "Ok" THEN b
       ELSE IF code.st # "Ok" THEN code
       ELSE IF c.st # "Ok" THEN c
       ELSE IF sender.st # "Ok" THEN sender
       ELSE IF e.st # "Ok" THEN e
       ELSE POk(e.pos, SkEvent(code.val, sender.val, param.val))

rx_erxudp_line(s) ==
    LET a == tag(s, 1, <<"E", "R", "X", "U", "D", "P">>)
        b1 == space1(s, a.pos)
        sender == ipv6addr(s, b1.pos)
        b2 == space1(s, sender.pos)
        destination == ipv6addr(s, b2.pos)
        b3 == space1(s, destination.pos)
        sender_port == u16_hex_digit(s, b3.pos)
        b4 == space1(s, sender_port.pos)
        destination_port == u16_hex_digit(s, b4.pos)
        b5 == space1(s, destination_port.pos)
        senderlla == u64_hex_digit(s, b5.pos)
        b6 == space1(s, senderlla.pos)
        secured == u8_hex_digit(s, b6.pos)
        b7 == space1(s, secured.pos)
        datalen == u16_hex_digit(s, b7.pos)
        b8 == space1(s, datalen.pos)
        data == many0_u8_hex_digit2(s, b8.pos, <<>>)
        e == crlf(s, data.pos)
    IN IF a.st # "Ok" THEN a
       ELSE IF b1.st # "Ok" THEN b1
       ELSE IF sender.st # "Ok" THEN sender
       ELSE IF b2.st # "Ok" THEN b2
       ELSE IF destination.st # "Ok" THEN destination
       ELSE IF b3.st # "Ok" THEN b3
       ELSE IF sender_port.st # "Ok" THEN sender_port
       ELSE IF b4.st # "Ok" THEN b4
       ELSE IF destination_port.st # "Ok" THEN destination_port
       ELSE IF b5.st # "Ok" THEN b5
       ELSE IF senderlla.st # "Ok" THEN senderlla
       ELSE IF b6.st # "Ok" THEN b6
       ELSE IF secured.st # "Ok" THEN secured
       ELSE IF b7.st # "Ok" THEN b7
       ELSE IF datalen.st # "Ok" THEN datalen
       ELSE IF b8.st # "Ok" THEN b8
       ELSE IF e.st # "Ok" THEN e
       ELSE POk(e.pos, SkErxudp(sender.val, destination.val, sender_port.val, destination_port.val,
                                senderlla.val, secured.val, datalen.val, data.val))

\* one line of an EPANDESC after the first: streaming tag of two blanks, the
\* label, u64_hex_digit, crlf
epandesc_line(s, i, label) ==
    LET a == streaming_tag(s, i, <<" ", " ">>)
        b == tag(s, a.pos, label)
        n == u64_hex_digit(s, b.pos)
        e == crlf(s, n.pos)
    IN IF a.st # "Ok" THEN a
       ELSE IF b.st # "Ok" THEN b
       ELSE IF n.st # "Ok" THEN n
       ELSE IF e.st # "Ok" THEN e
       ELSE POk(e.pos, n.val)

rx_epandesc(s) ==
    LET a == tag(s, 1, <<"E", "P", "A", "N", "D", "E", "S", "C">>)
        e == crlf(s, a.pos)
        channel == epandesc_line(s, e.pos, <<"C", "h", "a", "n", "n", "e", "l", ":">>)
        channel_page == epandesc_line(s, channel.pos, <<"C", "h", "a", "n", "n", "e", "l", " ", "P", "a", "g", "e", ":">>)
        pan_id == epandesc_line(s, channel_page.pos, <<"P", "a", "n", " ", "I", "D", ":">>)
        addr == epandesc_line(s, pan_id.pos, <<"A", "d", "d", "r", ":">>)
        lqi == epandesc_line(s, addr.pos, <<"L", "Q", "I", ":">>)
        pair_id == epandesc_line(s, lqi.pos, <<"P", "a", "i", "r", "I", "D", ":">>)
    IN IF a.st # "Ok" THEN a
       ELSE IF e.st # "Ok" THEN e
       ELSE IF channel.st # "Ok" THEN channel
       ELSE IF channel_page.st # "Ok" THEN channel_page
       ELSE IF pan_id.st # "Ok" THEN pan_id
       ELSE IF addr.st # "Ok" THEN addr
       ELSE IF lqi.st # "Ok" THEN lqi
       ELSE IF pair_id.st # "Ok" THEN pair_id
       ELSE POk(pair_id.pos,
                SkEpandesc(HexInt(Low(channel.val, 2)), HexInt(Low(channel_page.val, 2)),
                           HexInt(Low(pan_id.val, 4)), addr.val,
                           HexInt(Low(lqi.val, 2)), Canon(Low(pair_id.val, 8))))

\* parse_rxd: alt goes to the next parser on Error only
parse_rxd(s) ==
    IF rx_void(s).st # "Error" THEN rx_void(s)
    ELSE IF rx_ok(s).st # "Error" THEN rx_ok(s)
    ELSE IF rx_fail(s).st # "Error" THEN rx_fail(s)
    ELSE IF rx_event(s).st # "Error" THEN rx_event(s)
    ELSE IF rx_epandesc(s).st # "Error" THEN rx_epandesc(s)
    ELSE rx_erxudp_line(s)

(***************************************************************************)
(* the text the adapter writes for a record                                *)
(***************************************************************************)
\* an Ipv6Addr as eight groups of four digits
SerAddr(a) ==
    Hex(a[1], 4) \o <<":">> \o Hex(a[2], 4) \o <<":">> \o Hex(a[3], 4) \o <<":">> \o Hex(a[4], 4)
    \o <<":">> \o Hex(a[5], 4) \o <<":">> \o Hex(a[6], 4) \o <<":">> \o Hex(a[7], 4) \o <<":">> \o Hex(a[8], 4)

\* bytes as pairs of digits
RECURSIVE SerBytes(_)
SerBytes(d) == IF d = <<>> THEN <<>> ELSE Hex(Head(d), 2) \o SerBytes(Tail(d))

\* the lines of a record
SerLines(r) ==
    CASE r.kind = "Void" -> <<<<"\r", "\n">>>>
      [] r.kind = "Ok" -> <<<<"O", "K", "\r", "\n">>>>
      [] r.kind = "Fail" -> <<<<"F", "A", "I", "L", " ", "E", "R">> \o Hex(r.code, 2) \o <<"\r", "\n">>>>
      [] r.kind = "Event" ->
           <<<<"E", "V", "E", "N", "T", " ">> \o Hex(r.code, 2) \o <<" ">> \o SerAddr(r.sender)
             \o (IF r.param = None THEN <<>> ELSE <<" ">> \o Hex(r.param, 2)) \o <<"\r", "\n">>>>
      [] r.kind = "Erxudp" ->
           <<<<"E", "R", "X", "U", "D", "P", " ">> \o SerAddr(r.sender) \o <<" ">> \o SerAddr(r.destination) \o <<" ">>
             \o Hex(r.sender_port, 4) \o <<" ">> \o Hex(r.destination_port, 4) \o <<" ">>
             \o r.senderlla \o <<" ">> \o Hex(r.secured, 1) \o <<" ">> \o Hex(r.datalen, 4) \o <<" ">>
             \o SerBytes(r.data) \o <<"\r", "\n">>>>
      [] r.kind = "Epandesc" ->
           <<<<"E", "P", "A", "N", "D", "E", "S", "C", "\r", "\n">>,
             <<" ", " ", "C", "h", "a", "n", "n", "e", "l", ":">> \o Hex(r.channel, 2) \o <<"\r", "\n">>,
             <<" ", " ", "C", "h", "a", "n", "n", "e", "l", " ", "P", "a", "g", "e", ":">> \o Hex(r.channel_page, 2) \o <<"\r", "\n">>,
             <<" ", " ", "P", "a", "n", " ", "I", "D", ":">> \o Hex(r.pan_id, 4) \o <<"\r", "\n">>,
             <<" ", " ", "A", "d", "d", "r", ":">> \o r.addr \o <<"\r", "\n">>,
             <<" ", " ", "L", "Q", "I", ":">> \o Hex(r.lqi, 2) \o <<"\r", "\n">>,
             <<" ", " ", "P", "a", "i", "r", "I", "D", ":">> \o r.pair_id \o <<"\r", "\n">>>>

\* linebuf.concat()
RECURSIVE Concat(_)
Concat(lines) == IF lines = <<>> THEN <<>> ELSE Head(lines) \o Concat(Tail(lines))

Ser(r) == Concat(SerLines(r))

\* the addresses and the records the adapter is taken to write
MeterAddr == <<65152, 0, 0, 0, 541, 4752, 4660, 22136>>
OwnAddr == <<65152, 0, 0, 0, 541, 4752, 1, 2>>
MeterLla == <<"0", "0", "1", "D", "1", "2", "9", "0", "1", "2", "3", "4", "5", "6", "7", "8">>
UdpData == SeqsUpTo({16, 129}, MaxUdpData)
ParserRecords ==
    {SkVoid, SkOk, SkFail(16), SkFail(4),
     SkEvent(32, MeterAddr, None), SkEvent(33, MeterAddr, 2), SkEvent(37, MeterAddr, None),
     SkEpandesc(59, 9, 43981, <<"1", "2", "3", "4", "5", "6", "7", "8", "A", "B", "C", "D", "A", "B", "C", "D">>, 132, <<"1", "2", "3", "4", "A", "B", "C", "D">>)}
    \cup {SkErxudp(MeterAddr, OwnAddr, 3610, 3610, Canon(MeterLla), 1, Len(d), d) : d \in UdpData}

(***************************************************************************)
(* State                                                                   *)
(***************************************************************************)
VARIABLES
    pc,         \* position of main / exec_data_acquisition / authn::connect
    cycle,      \* number of calls of exec_data_acquisition so far
    connSent,   \* commands written by the current call of authn::connect
    acked,      \* results of skstack::receive the command loop of connect went on from
    lastRx,     \* latest result of skstack::receive in connect / exec_data_acquisition (dropped at the spawn)
    connResult, \* return value of the latest call of authn::connect
    result,     \* return value of the latest call of exec_data_acquisition
    tx,         \* per cycle: the spawned smartmeter_transmitter task
    rx,         \* per cycle: the spawned smartmeter_receiver task
    sink,       \* rows inserted into the database
    ticks,      \* minute ticks of the schedule served so far
    store,      \* settings store: id of the newest row of the table settings
    settings,   \* settings store: RouteBId, RouteBPassword and MacAddress of the newest row
    profile,    \* id of the settings row the latest call of exec_data_acquisition has read (0: none)
    exInput,    \* rx_erxudp taken alone: the Erxudp it is called with
    exOutput,   \* rx_erxudp taken alone: the entries it has handed to commit_to_database
    pPc,        \* position of pairing / active_scan / authn::connect called by pairing
    pSent,      \* commands written by active_scan and by connect
    pAcked,     \* results of skstack::receive the command loops went on from
    pLast,      \* latest result of skstack::receive in pairing
    scanLog,    \* results of skstack::receive in the wait loop of active_scan, until pairing goes on
    found,      \* active_scan: the descriptors collected
    propIdx,    \* pairing: number of property requests written
    unit,       \* pairing: unit_for_cumlative_amounts_power is Some
    coefficient,\* pairing: coefficient is Some
    pResult,    \* return value of pairing
    fnIn,       \* a function taken alone: its argument
    fnOut,      \* a function taken alone: its result
    rdPc,       \* skstack::receive taken alone: position of its caller and of its loop
    rdStream,   \* skstack::receive taken alone: what read_line is still to give, line by line
    rdBuf,      \* skstack::receive taken alone: linebuf
    rdOut       \* skstack::receive taken alone: the results of the calls so far

\* variables the daemon never touches
pairVars == <<pPc, pSent, pAcked, pLast, scanLog, found, propIdx, unit, coefficient, pResult>>
pureVars == <<fnIn, fnOut, rdPc, rdStream, rdBuf, rdOut>>
aux == <<store, settings, exInput, exOutput, pairVars, pureVars>>
daemonVars == <<pc, cycle, connSent, acked, lastRx, connResult, result, tx, rx, sink, ticks, profile>>
\* variables of the daemon, the settings table, rx_erxudp and pairing
progVars == <<daemonVars, store, settings, exInput, exOutput, pairVars>>
vars == <<daemonVars, aux>>

Cycles == 1..MaxCycles
NoRx == Rxd("none", None, None)
\* a transmitter: rejoin is rejoin_time - now (seconds) as of its latest tick,
\* first tells that no tick has been served yet
\* wrote is what its latest step has written to the serial port; clock is the
\* time in seconds since rejoin_time was first set, as of its latest tick, and
\* lastRejoin the value of clock at the tick of its latest SKREJOIN (0: none yet)
TxTask(st, res, rejoin, first) ==
    [st |-> st, res |-> res, rejoin |-> rejoin, first |-> first,
     wrote |-> <<>>, clock |-> 0, lastRejoin |-> 0]
Wrote(t, w, clock, lastRejoin) == [t EXCEPT !.wrote = w, !.clock = clock, !.lastRejoin = lastRejoin]
NoTx == TxTask("none", NoResult, 0, TRUE)
\* a receiver: last is the record it consumed last, rest the entries of the
\* frame commit_to_database has still to go through, show what the log of
\* rx_erxudp will do with the frame after commit_to_database
RxTask(st, res, last, rest) == [st |-> st, res |-> res, last |-> last, rest |-> rest, show |-> "ok"]
NoRxTask == RxTask("none", NoResult, NoRx, <<>>)

\* task states in which the task still runs
Running == {"today", "sleep", "rejoin", "recv", "commit"}

\* the daemon before its first cycle
DaemonIdle ==
    /\ pc = "start"
    /\ cycle = 0
    /\ connSent = <<>>
    /\ acked = 0
    /\ lastRx = NoRx
    /\ connResult = Authn("none")
    /\ result = NoResult
    /\ tx = [c \in Cycles |-> NoTx]
    /\ rx = [c \in Cycles |-> NoRxTask]
    /\ sink = 0
    /\ ticks = 0
    /\ profile = 0

\* the settings table with one row, which holds valid settings
StoreIdle == store = 1 /\ settings = ValidSettings

\* no function is taken alone
NotCalled == [st |-> "none"]
FnIdle == fnIn = NotCalled /\ fnOut = NotCalled
ReceiveIdle == rdPc = "idle" /\ rdStream = <<>> /\ rdBuf = <<>> /\ rdOut = <<>>
PureIdle == FnIdle /\ ReceiveIdle

\* rx_erxudp not under study
ErxIdle == exInput = Rxd("none", None, None) /\ exOutput = [done |-> FALSE, entries |-> <<>>]

\* pairing before its call, at position p
PairAt(p) ==
    /\ pPc = p
    /\ pSent = <<>>
    /\ pAcked = 0
    /\ pLast = NoRx
    /\ scanLog = <<>>
    /\ found = <<>>
    /\ propIdx = 0
    /\ unit = FALSE
    /\ coefficient = FALSE
    /\ pResult = PRunning

Init ==
    /\ DaemonIdle
    /\ store = 1
    /\ settings \in DaemonSettings
    /\ ErxIdle
    /\ PairAt("idle")
    /\ PureIdle

\* exec_data_acquisition returns res to main
Return(res) ==
    /\ pc' = "returned"
    /\ result' = res

(***************************************************************************)
(* main and exec_data_acquisition                                          *)
(***************************************************************************)
\* the_service_provider up to the call of authn::connect: environment variables
\* (Other when one is not set), PgPool::connect and read_settings (Database),
\* Id/Password/MAC conversion of the row, serialport open (SerialPort), try_clone
\* (Other); the errors before the conversion do not depend on the row
SetupOutcomes == {"ok", "Other", "Database", "InvalidId", "InvalidPassword", "InvalidMacAddress", "SerialPort"}

\* read_settings that reads the store only while no profile is held
read_settings_once == IF profile = 0 THEN store ELSE profile

\* read_settings: the row of the settings table with the greatest id
read_settings == store

exec_setup ==
    /\ pc = "start"
    /\ cycle < MaxCycles
    /\ cycle' = cycle + 1
    /\ connSent' = <<>>
    /\ acked' = 0
    /\ lastRx' = NoRx
    /\ connResult' = Authn("none")
    /\ \E o \in SetupOutcomes :
         /\ o \in {"InvalidId", "InvalidPassword", "InvalidMacAddress"} => o = exec_credentials(settings)
         /\ o \in {"ok", "SerialPort"} => exec_credentials(settings) = "ok"
         /\ IF o = "ok"
            THEN pc' = "connect_send" /\ result' = NoResult /\ profile' = read_settings
            ELSE Return(Error(o)) /\ UNCHANGED profile
    /\ UNCHANGED <<tx, rx, sink, ticks>>
    /\ UNCHANGED aux

\* authn::connect, command loop: skstack::send(writer, command)
connect_send ==
    /\ pc = "connect_send"
    /\ \E wrote \in BOOLEAN :
         IF wrote
         THEN /\ connSent' = Append(connSent, connect_command(Len(connSent) + 1))
              /\ pc' = "connect_recv"
              /\ UNCHANGED <<connResult, result>>
         ELSE /\ connResult' = Authn("Io")
              /\ Return(From_authn_Error(Authn("Io")))
              /\ UNCHANGED connSent
    /\ UNCHANGED <<cycle, acked, lastRx, tx, rx, sink, ticks>>
    /\ UNCHANGED <<aux, profile>>

\* authn::connect, command loop: skstack::receive(reader) and the test for Fail
connect_receive ==
    /\ pc = "connect_recv"
    /\ \E r \in RxHeaders :
         /\ lastRx' = Header(r)
         /\ IF connect_ack(r) = Continue
            THEN /\ acked' = acked + 1
                 /\ pc' = IF Len(connSent) < Len(connect_sequence) THEN "connect_send" ELSE "connect_wait"
                 /\ UNCHANGED <<connResult, result>>
            ELSE /\ connResult' = connect_ack(r)
                 /\ Return(From_authn_Error(connect_ack(r)))
                 /\ UNCHANGED acked
    /\ UNCHANGED <<cycle, connSent, tx, rx, sink, ticks>>
    /\ UNCHANGED <<aux, profile>>

\* authn::connect, event loop after SKJOIN; on Ok exec_data_acquisition goes on
\* to its custom_commands
connect_event ==
    /\ pc = "connect_wait"
    /\ \E r \in RxHeaders :
         /\ lastRx' = Header(r)
         /\ CASE connect_wait(r) = Continue -> UNCHANGED <<pc, connResult, result>>
              [] connect_wait(r) = Authn("Ok") ->
                    /\ connResult' = Authn("Ok")
                    /\ pc' = "custom_send"
                    /\ UNCHANGED result
              [] OTHER ->
                    /\ connResult' = connect_wait(r)
                    /\ Return(From_authn_Error(connect_wait(r)))
    /\ UNCHANGED <<cycle, connSent, acked, tx, rx, sink, ticks>>
    /\ UNCHANGED <<aux, profile>>

\* exec_data_acquisition, custom_commands: skstack::send of SKSREG S16
custom_send ==
    /\ pc = "custom_send"
    /\ \E wrote \in BOOLEAN :
         IF wrote
         THEN /\ pc' = "custom_recv"
              /\ UNCHANGED result
         ELSE Return(Error("Io"))
    /\ UNCHANGED <<cycle, connSent, acked, lastRx, connResult, tx, rx, sink, ticks>>
    /\ UNCHANGED <<aux, profile>>

\* exec_data_acquisition, custom_commands: what follows the one call of
\* skstack::receive when it gives r: `?` on an error, the test for Fail, and
\* for any other record, which is dropped there, tokio::spawn of the two tasks
custom_receive_record(r) ==
    /\ lastRx' = IF r.kind \in {"TimedOut", "IoError", "Fail"} THEN Header(r) ELSE NoRx
    /\ CASE r.kind \in {"TimedOut", "IoError"} ->
               /\ Return(Error("Io"))
               /\ UNCHANGED <<tx, rx>>
         [] r.kind = "Fail" ->
               /\ Return(CommandFail(r.code))
               /\ UNCHANGED <<tx, rx>>
         [] OTHER ->
               /\ pc' = "running"
               /\ tx' = [tx EXCEPT ![cycle] = TxTask("today", NoResult, 0, TRUE)]
               /\ rx' = [rx EXCEPT ![cycle] = RxTask("recv", NoResult, NoRx, <<>>)]
               /\ UNCHANGED result
    /\ UNCHANGED <<cycle, connSent, acked, connResult, sink, ticks>>
    /\ UNCHANGED <<aux, profile>>

\* exec_data_acquisition, custom_commands: skstack::receive and the test for
\* Fail, then tokio::spawn of the two tasks
custom_receive ==
    /\ pc = "custom_recv"
    /\ \E r \in RxHeaders : custom_receive_record(r)

\* a task whose result has been taken, or dropped with its JoinHandle
Joined(t, none) == IF t.st = "done" THEN [none EXCEPT !.st = "joined"] ELSE t

\* tokio::select! over the two JoinHandles, branch `v = handle_transmitter`: the
\* result of the finished task is the result of exec_data_acquisition; the
\* JoinHandle of the other task is dropped, which leaves that task running
select_transmitter ==
    /\ pc = "running"
    /\ tx[cycle].st = "done"
    /\ Return(tx[cycle].res)
    /\ tx' = [tx EXCEPT ![cycle] = Joined(@, NoTx)]
    /\ rx' = [rx EXCEPT ![cycle] = Joined(@, NoRxTask)]
    /\ UNCHANGED <<cycle, connSent, acked, lastRx, connResult, sink, ticks>>
    /\ UNCHANGED <<aux, profile>>

\* tokio::select!, branch `v = handle_receiver`: when the task has panicked
\* the JoinHandle gives Err and `v.unwrap()` panics in main, which ends the
\* process (exit code 101) and with it every task, without a result
select_receiver ==
    /\ pc = "running"
    /\ rx[cycle].st = "done"
    /\ IF rx[cycle].res = Error("Panic")
       THEN /\ pc' = "panicked"
            /\ tx' = [c \in Cycles |-> IF tx[c].st \in Running \cup {"done"} THEN [NoTx EXCEPT !.st = "cancelled"] ELSE tx[c]]
            /\ rx' = [c \in Cycles |-> IF rx[c].st \in Running \cup {"done"} THEN [NoRxTask EXCEPT !.st = "cancelled"] ELSE rx[c]]
            /\ UNCHANGED result
       ELSE /\ Return(rx[cycle].res)
            /\ tx' = [tx EXCEPT ![cycle] = Joined(@, NoTx)]
            /\ rx' = [rx EXCEPT ![cycle] = Joined(@, NoRxTask)]
    /\ UNCHANGED <<cycle, connSent, acked, lastRx, connResult, sink, ticks>>
    /\ UNCHANGED <<aux, profile>>

\* main: the match on the result; a restart sleeps the cool-down first, any
\* other arm leaves the loop and main returns ExitCode::FAILURE, which ends
\* the runtime and with it every task
main_result ==
    /\ pc = "returned"
    /\ IF main_match(result)
       THEN /\ pc' = "cooldown"
            /\ UNCHANGED <<tx, rx>>
       ELSE /\ pc' = "exited"
            /\ tx' = [c \in Cycles |-> IF tx[c].st \in Running \cup {"done"} THEN [NoTx EXCEPT !.st = "cancelled"] ELSE tx[c]]
            /\ rx' = [c \in Cycles |-> IF rx[c].st \in Running \cup {"done"} THEN [NoRxTask EXCEPT !.st = "cancelled"] ELSE rx[c]]
    /\ UNCHANGED <<cycle, connSent, acked, lastRx, connResult, result, sink, ticks>>
    /\ UNCHANGED <<aux, profile>>

\* main: tokio::time::sleep(5 s) is over, `continue` calls the_service_provider again
main_restart ==
    /\ pc = "cooldown"
    /\ pc' = "start"
    /\ UNCHANGED <<cycle, connSent, acked, lastRx, connResult, result, tx, rx, sink, ticks>>
    /\ UNCHANGED <<aux, profile>>

(***************************************************************************)
(* smartmeter_transmitter of cycle c                                       *)
(***************************************************************************)
TxDone(c, res) == tx' = [tx EXCEPT ![c] = TxTask("done", res, 0, FALSE)]

\* transmitter_today that sends the request for the instantaneous values
transmitter_today_instant(c) ==
    /\ tx[c].st = "today"
    /\ \E wrote \in BOOLEAN :
         IF wrote
         THEN tx' = [tx EXCEPT ![c] =
                       Wrote(TxTask("sleep", NoResult, session_rejoin_period, TRUE),
                             <<Sksendto(INSTANT_WATT_AMPERE)>>, 0, 0)]
         ELSE TxDone(c, Error("Io"))
    /\ UNCHANGED <<pc, cycle, connSent, acked, lastRx, connResult, result, rx, sink, ticks>>
    /\ UNCHANGED <<aux, profile>>

\* the request for today's history, then rejoin_time = Instant::now() + session_rejoin_period
transmitter_today(c) ==
    /\ tx[c].st = "today"
    /\ \E wrote \in BOOLEAN :
         IF wrote
         THEN tx' = [tx EXCEPT ![c] =
                       Wrote(TxTask("sleep", NoResult, session_rejoin_period, TRUE),
                             <<Sksendto(TODAY_CWH)>>, 0, 0)]
         ELSE TxDone(c, Error("Io"))
    /\ UNCHANGED <<pc, cycle, connSent, acked, lastRx, connResult, result, rx, sink, ticks>>
    /\ UNCHANGED <<aux, profile>>

\* one iteration of the schedule loop, in the steps between which the task
\* yields. From "sleep": (next - now).to_std()? fails when next is already
\* past (late); after the sleep the request for E7 and E8 is written; when
\* now >= rejoin_time the task sleeps one second ("rejoin"). From "rejoin":
\* SKREJOIN is written and rejoin_time = now + session_rejoin_period.
transmitter_iteration(c) ==
    /\ tx[c].st \in {"sleep", "rejoin"}
    /\ ticks' = IF tx[c].st = "sleep" THEN ticks + 1 ELSE ticks
    /\ IF tx[c].st = "rejoin"
       THEN \E wrote \in BOOLEAN :
              IF wrote
              THEN tx' = [tx EXCEPT ![c] =
                            Wrote(TxTask("sleep", NoResult, session_rejoin_period, FALSE),
                                  <<Skrejoin>>, tx[c].clock, tx[c].clock)]
              ELSE TxDone(c, Error("Io"))
       ELSE \E late \in BOOLEAN :
              IF late THEN TxDone(c, Error("OutOfRange"))
              ELSE \E wrote \in BOOLEAN :
                     IF ~wrote THEN TxDone(c, Error("Io"))
                     ELSE \E slept \in (IF tx[c].first THEN FirstSleep ELSE {SchedulePeriod}) :
                            LET due == tx[c].rejoin - slept <= 0
                                now == tx[c].clock + slept
                            IN tx' = [tx EXCEPT ![c] =
                                        Wrote(TxTask(IF due THEN "rejoin" ELSE "sleep", NoResult,
                                                     tx[c].rejoin - slept, FALSE),
                                              <<Sksendto(INSTANT_WATT_AMPERE)>>, now, tx[c].lastRejoin)]
    /\ UNCHANGED <<pc, cycle, connSent, acked, lastRx, connResult, result, rx, sink>>
    /\ UNCHANGED <<aux, profile>>

\* the iterations of the schedule loop served in a run of the daemon
transmitter_tick(c) ==
    /\ tx[c].st = "sleep" => ticks < MaxTicks
    /\ transmitter_iteration(c)

(***************************************************************************)
(* smartmeter_receiver of cycle c                                          *)
(***************************************************************************)
\* one iteration of the loop on the result r of skstack::receive at the moment
\* now: the match on it and, for an Erxudp, rx_erxudp up to the first sink
\* operation
receiver_record(r, now) ==
    IF smartmeter_receiver(r) # Error("continue")
    THEN RxTask("done", smartmeter_receiver(r), Header(r), <<>>)
    ELSE IF r.kind = "Erxudp" /\ rx_erxudp_recorded_at(now) = {}
    THEN RxTask("done", Error("Other"), Header(r), <<>>)
    ELSE IF r.kind = "Erxudp" /\ rx_erxudp(r) # <<>>
    THEN [RxTask("commit", NoResult, Header(r), rx_erxudp(r)) EXCEPT !.show = rx_erxudp_show(rx_erxudp(r))]
    ELSE RxTask("recv", NoResult, Header(r), <<>>)

\* Utc::now() while the daemon runs: 2024-10-04 15:00:00
CommitNows == {NaiveDateTime(20000, 54000)}

\* the receiver after one iteration, for the records the adapter is taken to deliver
ReceiverSteps == {receiver_record(r, now) : r \in RxOutcomes, now \in CommitNows}

\* one iteration of the loop: skstack::receive and what follows its result
receiver_receive(c) ==
    /\ rx[c].st = "recv"
    /\ \E t \in ReceiverSteps : rx' = [rx EXCEPT ![c] = t]
    /\ UNCHANGED <<pc, cycle, connSent, acked, lastRx, connResult, result, tx, sink, ticks>>
    /\ UNCHANGED <<aux, profile>>

\* receiver_commit that goes through the entries of the frame from the last one
receiver_commit_reverse(c) ==
    /\ rx[c].st = "commit"
    /\ \E now \in CommitNows, inserted \in {b \in BOOLEAN : b => sink < MaxSink} :
         LET n == Len(rx[c].rest)
             e == rx[c].rest[n]
             left == SubSeq(rx[c].rest, 1, n - 1)
             out == commit_entry(e, now, inserted)
             writes == inserted /\ out = Error("continue") /\ commit_table(Properties_try_from(e)) # "none"
         IN /\ sink' = IF writes THEN sink + 1 ELSE sink
            /\ rx' = [rx EXCEPT ![c] =
                        IF out # Error("continue")
                        THEN RxTask("done", out, rx[c].last, left)
                        ELSE IF left = <<>>
                        THEN IF rx[c].show = "panic"
                             THEN RxTask("done", Error("Panic"), rx[c].last, <<>>)
                             ELSE RxTask("recv", NoResult, rx[c].last, <<>>)
                        ELSE [rx[c] EXCEPT !.rest = left]]
    /\ UNCHANGED <<pc, cycle, connSent, acked, lastRx, connResult, result, tx, ticks>>
    /\ UNCHANGED <<aux, profile>>

\* commit_to_database: one iteration of `for edata in frame.edata.iter()`; the
\* sink operation, when there is one, succeeds (inserted) or returns an error;
\* after the last entry rx_erxudp formats the frame for the log
receiver_commit(c) ==
    /\ rx[c].st = "commit"
    /\ \E now \in CommitNows, inserted \in {b \in BOOLEAN : b => sink < MaxSink} :
         LET e == Head(rx[c].rest)
             out == commit_entry(e, now, inserted)
             writes == inserted /\ out = Error("continue") /\ commit_table(Properties_try_from(e)) # "none"
         IN /\ sink' = IF writes THEN sink + 1 ELSE sink
            /\ rx' = [rx EXCEPT ![c] =
                        IF out # Error("continue")
                        THEN RxTask("done", out, rx[c].last, Tail(rx[c].rest))
                        ELSE IF Tail(rx[c].rest) = <<>>
                        THEN IF rx[c].show = "panic"
                             THEN RxTask("done", Error("Panic"), rx[c].last, <<>>)
                             ELSE RxTask("recv", NoResult, rx[c].last, <<>>)
                        ELSE [rx[c] EXCEPT !.rest = Tail(rx[c].rest)]]
    /\ UNCHANGED <<pc, cycle, connSent, acked, lastRx, connResult, result, tx, ticks>>
    /\ UNCHANGED <<aux, profile>>

(***************************************************************************)
(* Specification                                                           *)
(***************************************************************************)
Next ==
    \/ exec_setup
    \/ connect_send
    \/ connect_receive
    \/ connect_event
    \/ custom_send
    \/ custom_receive
    \/ select_transmitter
    \/ select_receiver
    \/ main_result
    \/ main_restart
    \/ \E c \in Cycles : transmitter_today(c)
    \/ \E c \in Cycles : transmitter_tick(c)
    \/ \E c \in Cycles : receiver_receive(c)
    \/ \E c \in Cycles : receiver_commit(c)

Spec == Init /\ [][Next]_vars

TypeOK ==
    /\ pc \in {"start", "connect_send", "connect_recv", "connect_wait", "custom_send",
               "custom_recv", "running", "returned", "cooldown", "exited"}
    /\ cycle \in 0..MaxCycles
    /\ Len(connSent) <= Len(connect_sequence)
    /\ sink \in 0..MaxSink
    /\ ticks \in 0..MaxTicks

(***************************************************************************)
(* rx_erxudp taken alone: called once with any ERXUDP                      *)
(***************************************************************************)
\* the ERXUDP records rx_erxudp is called with: every payload on every port
ErxudpInputs == {Erxudp(p, d) : p \in Ports, d \in Payloads}

InitErxudp ==
    /\ DaemonIdle
    /\ StoreIdle
    /\ exInput \in ErxudpInputs
    /\ exOutput = [done |-> FALSE, entries |-> <<>>]
    /\ PairAt("idle")
    /\ PureIdle

\* the call rx_erxudp(pool, unit, &erxudp) up to commit_to_database
erxudp_call ==
    /\ exInput.kind = "Erxudp"
    /\ ~exOutput.done
    /\ exOutput' = [done |-> TRUE, entries |-> rx_erxudp(exInput)]
    /\ UNCHANGED <<daemonVars, store, settings, exInput, pairVars, pureVars>>

NextErxudp == erxudp_call

SpecErxudp == InitErxudp /\ [][NextErxudp]_vars

(***************************************************************************)
(* smartmeter_transmitter taken alone, from its spawn, for an hour of ticks *)
(***************************************************************************)
\* the state exec_data_acquisition spawns the two tasks of the first cycle in
InitTx ==
    /\ pc = "running"
    /\ cycle = 1
    /\ connSent = connect_sequence
    /\ acked = Len(connect_sequence)
    /\ lastRx = NoRx
    /\ connResult = Authn("Ok")
    /\ result = NoResult
    /\ tx = [c \in Cycles |-> IF c = 1 THEN TxTask("today", NoResult, 0, TRUE) ELSE NoTx]
    /\ rx = [c \in Cycles |-> IF c = 1 THEN RxTask("recv", NoResult, NoRx, <<>>) ELSE NoRxTask]
    /\ sink = 0
    /\ ticks = 0
    /\ profile = 1
    /\ StoreIdle
    /\ ErxIdle
    /\ PairAt("idle")
    /\ PureIdle

\* the iterations of the schedule loop served when the transmitter is taken alone
transmitter_hour(c) ==
    /\ tx[c].st = "sleep" => ticks < MaxTxTicks
    /\ transmitter_iteration(c)

NextTx ==
    \/ \E c \in Cycles : transmitter_today(c)
    \/ \E c \in Cycles : transmitter_hour(c)

SpecTx == InitTx /\ [][NextTx]_vars

(***************************************************************************)
(* the settings table: the daemon's cycles up to the session, and the       *)
(* pairing program inserting a row while the daemon runs                   *)
(***************************************************************************)
\* the pairing program: INSERT INTO settings ( note ) VALUES ( $1 ) of the
\* settings pairing has returned; rows written by other hands are taken in too
settings_insert ==
    /\ store < MaxProfiles
    /\ store' = store + 1
    /\ settings' \in StoredSettings
    /\ UNCHANGED <<daemonVars, exInput, exOutput, pairVars, pureVars>>

NextSettings ==
    \/ exec_setup
    \/ connect_send
    \/ connect_receive
    \/ connect_event
    \/ main_result
    \/ main_restart
    \/ settings_insert

InitSettings ==
    /\ DaemonIdle
    /\ store = 1
    /\ settings \in StoredSettings
    /\ ErxIdle
    /\ PairAt("idle")
    /\ PureIdle

SpecSettings == InitSettings /\ [][NextSettings]_vars

(***************************************************************************)
(* parse_rxd taken alone: called once with a prefix of the text of a record *)
(***************************************************************************)
\* the first n characters of the text of the record rec
ParserInput(rec, n) == [rec |-> rec, n |-> n]
TextOf(in) == SubSeq(Ser(in.rec), 1, in.n)

\* every prefix of the text of every record, the whole text included
ParserInputs == UNION {{ParserInput(rec, n) : n \in 0..Len(Ser(rec))} : rec \in ParserRecords}

InitParser ==
    /\ DaemonIdle
    /\ StoreIdle
    /\ ErxIdle
    /\ PairAt("idle")
    /\ ReceiveIdle
    /\ fnIn \in ParserInputs
    /\ fnOut = NotCalled

parse_call ==
    /\ fnOut = NotCalled
    /\ fnOut' = parse_rxd(TextOf(fnIn))
    /\ UNCHANGED <<progVars, fnIn, rdPc, rdStream, rdBuf, rdOut>>

NextParser == parse_call

SpecParser == InitParser /\ [][NextParser]_vars

(***************************************************************************)
(* the ECHONET Lite frame codec (bincode, big endian, fixed-width ints),    *)
(* taken alone: bytes are the integers 0..255                              *)
(***************************************************************************)
\* EchonetliteFrame with all its fields
EchonetliteFrame(ehd, tid, seoj, deoj, esv, opc, edata) ==
    [ehd |-> ehd, tid |-> tid, seoj |-> seoj, deoj |-> deoj, esv |-> esv, opc |-> opc, edata |-> edata]

\* results of a decoder: the value and the index of the first byte not read,
\* or DecodeError::UnexpectedEnd
DOk(pos, val) == [st |-> "Ok", pos |-> pos, val |-> val]
UnexpectedEnd == [st |-> "UnexpectedEnd"]

\* u8, u16 (big endian) and [u8; 3] read at index i of b
u8_decode(b, i) == IF i <= Len(b) THEN DOk(i + 1, b[i]) ELSE UnexpectedEnd
u16_decode(b, i) == IF i + 1 <= Len(b) THEN DOk(i + 2, b[i] * 256 + b[i + 1]) ELSE UnexpectedEnd
array3_decode(b, i) == IF i + 2 <= Len(b) THEN DOk(i + 3, SubSeq(b, i, i + 2)) ELSE UnexpectedEnd

\* take_bytes that gives the bytes that are left when fewer than n are left
take_bytes_short(b, i, n) ==
    IF i + n - 1 <= Len(b) THEN DOk(i + n, SubSeq(b, i, i + n - 1)) ELSE DOk(Len(b) + 1, SubSeq(b, i, Len(b)))

\* borrow_reader().take_bytes(n)
take_bytes(b, i, n) ==
    IF i + n - 1 <= Len(b) THEN DOk(i + n, SubSeq(b, i, i + n - 1)) ELSE UnexpectedEnd

\* EchonetliteEdata::borrow_decode at index i of b
Edata_borrow_decode(b, i) ==
    LET epc == u8_decode(b, i)
        pdc == u8_decode(b, epc.pos)
        edt == take_bytes(b, pdc.pos, pdc.val)
    IN IF epc.st # "Ok" THEN UnexpectedEnd
       ELSE IF pdc.st # "Ok" THEN UnexpectedEnd
       ELSE IF edt.st # "Ok" THEN UnexpectedEnd
       ELSE DOk(edt.pos, EchonetliteEdata(epc.val, pdc.val, edt.val))

\* the loop `for _idx in 0..opc` of EchonetliteFrame::borrow_decode: n entries
\* are still to be read at index i, acc holds those read so far
RECURSIVE Edata_loop(_, _, _, _)
Edata_loop(b, i, n, acc) ==
    IF n = 0 THEN DOk(i, acc)
    ELSE LET e == Edata_borrow_decode(b, i)
         IN IF e.st # "Ok" THEN UnexpectedEnd
            ELSE Edata_loop(b, e.pos, n - 1, Append(acc, e.val))

\* EchonetliteFrame::borrow_decode on the bytes b
Frame_borrow_decode(b) ==
    LET ehd == u16_decode(b, 1)
        tid == u16_decode(b, 3)
        seoj == array3_decode(b, 5)
        deoj == array3_decode(b, 8)
        esv == u8_decode(b, 11)
        opc == u8_decode(b, 12)
        edata == Edata_loop(b, 13, opc.val, <<>>)
    IN IF Len(b) < 12 THEN UnexpectedEnd
       ELSE IF edata.st # "Ok" THEN UnexpectedEnd
       ELSE DOk(edata.pos, EchonetliteFrame(ehd.val, tid.val, seoj.val, deoj.val, esv.val, opc.val, edata.val))

\* bincode::borrow_decode_from_slice: the frame and the number of bytes read;
\* bytes after the frame are left unread
borrow_decode_from_slice(b) ==
    LET d == Frame_borrow_decode(b)
    IN IF d.st = "Ok" THEN [st |-> "Ok", val |-> d.val, len |-> d.pos - 1] ELSE d

\* u16 written low byte first
u16_encode_le(n) == <<n % 256, n \div 256>>

\* Encode of u16, big endian
u16_encode(n) == <<n \div 256, n % 256>>

\* Edata_encode that writes edt as a slice, with its length in front
Edata_encode_slice(e) == <<e.epc, e.pdc, Len(e.edt)>> \o e.edt

\* EchonetliteEdata::encode: epc, pdc, then every byte of edt
Edata_encode(e) == <<e.epc, e.pdc>> \o e.edt

RECURSIVE Edata_encode_all(_)
Edata_encode_all(es) == IF es = <<>> THEN <<>> ELSE Edata_encode(Head(es)) \o Edata_encode_all(Tail(es))

\* EchonetliteFrame::encode: the header fields, then every entry of edata
Frame_encode(f) ==
    u16_encode(f.ehd) \o u16_encode(f.tid) \o f.seoj \o f.deoj \o <<f.esv, f.opc>>
    \o Edata_encode_all(f.edata)

\* bincode::encode_to_vec
encode_to_vec(f) == Frame_encode(f)

\* the payload of an ERXUDP as rx_erxudp sees it after borrow_decode_from_slice
DecodedPayload(b) ==
    LET d == borrow_decode_from_slice(b)
    IN IF d.st # "Ok" THEN Undecodable
       ELSE Frame(d.val.esv, d.val.edata)

\* entries of the frames given to the codec: E7 as in a Get request, E7 and
\* E1 with their values, and one whose pdc is not the length of its edt
CodecEntries ==
    {EchonetliteEdata(EPC_E7, 0, <<>>), EchonetliteEdata(EPC_E7, 4, <<1, 2, 3, 4>>),
     EchonetliteEdata(EPC_E1, 1, <<2>>), EchonetliteEdata(EPC_E8, 1, <<0, 30>>)}
\* EHD 0x1081 and 0x1082
CodecEhds == {4225, 4226}
\* the frames given to the codec: TID 0x1234, SEOJ 05FF01, DEOJ 028801, ESV 0x62
CodecFrames ==
    {EchonetliteFrame(ehd, 4660, <<5, 255, 1>>, <<2, 136, 1>>, 98, opc, edata) :
        ehd \in CodecEhds, opc \in 0..MaxOpc, edata \in SeqsUpTo(CodecEntries, MaxOpc)}

\* an argument of the codec: a frame to encode, or the bytes to decode, which
\* are the first n bytes of the encoding of a frame followed by one byte 0
CodecInput(op, f, n) ==
    [op |-> op, frame |-> f, n |-> n, bytes |-> SubSeq(Frame_encode(f) \o <<0>>, 1, n)]
CodecInputs ==
    {CodecInput("encode", f, 0) : f \in CodecFrames}
    \cup UNION {{CodecInput("decode", f, n) : n \in 0..(Len(Frame_encode(f)) + 1)} : f \in CodecFrames}

InitFrame ==
    /\ DaemonIdle
    /\ StoreIdle
    /\ ErxIdle
    /\ PairAt("idle")
    /\ ReceiveIdle
    /\ fnIn \in CodecInputs
    /\ fnOut = NotCalled

\* bincode::encode_to_vec(&frame, config)
frame_encode_call ==
    /\ fnIn.op = "encode"
    /\ fnOut = NotCalled
    /\ fnOut' = [st |-> "Ok", bytes |-> encode_to_vec(fnIn.frame)]
    /\ UNCHANGED <<progVars, fnIn, rdPc, rdStream, rdBuf, rdOut>>

\* rx_erxudp on port 0x0E1A up to commit_to_database: borrow_decode_from_slice
\* of the data, and the entries handed over
frame_decode_call ==
    /\ fnIn.op = "decode"
    /\ fnOut = NotCalled
    /\ fnOut' = [st |-> borrow_decode_from_slice(fnIn.bytes).st,
                 decoded |-> borrow_decode_from_slice(fnIn.bytes),
                 entries |-> rx_erxudp(Erxudp(3610, DecodedPayload(fnIn.bytes)))]
    /\ UNCHANGED <<progVars, fnIn, rdPc, rdStream, rdBuf, rdOut>>

NextFrame ==
    \/ frame_encode_call
    \/ frame_decode_call

SpecFrame == InitFrame /\ [][NextFrame]_vars

(***************************************************************************)
(* the property decoders taken alone                                       *)
(***************************************************************************)
\* the EPCs given to the decoders: those of the two classes and 0x80
PropEpcs == {EPC_8A, EPC_9F, EPC_D3, EPC_D5, EPC_D7, EPC_E0, EPC_E1, EPC_E2, EPC_E7, EPC_E8, EPC_EA, 128}
\* the lengths of the EDT given to the decoders
PropLens == {0, 1, 2, 3, 4, 5, 6, 7, 10, 11, 12, 16, 17, 18, 194}
\* an EDT of n bytes: its first byte and the byte that fills the rest
Bytes(n, first, fill) == [k \in 1..n |-> IF k = 1 THEN first ELSE fill]
\* the EDT of 0xEA: 2025-02-28 23:30:00, 2024-02-29 and 2025-02-29 00:00:00,
\* month 13, hour 24, second 60; the value is 00 00 01 00
DateEdts ==
    {<<7, 233, 2, 28, 23, 30, 0, 0, 0, 1, 0>>, <<7, 232, 2, 29, 0, 0, 0, 0, 0, 1, 0>>,
     <<7, 233, 2, 29, 0, 0, 0, 0, 0, 1, 0>>, <<7, 233, 13, 1, 0, 0, 0, 0, 0, 1, 0>>,
     <<7, 233, 1, 1, 24, 0, 0, 0, 0, 1, 0>>, <<7, 233, 1, 1, 0, 0, 60, 0, 0, 1, 0>>}
\* an EDT of 0x9F with a bitmap: 0x80 and 0x8F (bit 0 of bytes 0 and 15), 0x91
\* (bit 1 of byte 1), 0xE7 (bit 6 of byte 7), 0xFA (bit 7 of byte 10)
BitmapEdts == {<<24, 1, 2, 0, 0, 0, 0, 0, 64, 0, 0, 128, 0, 0, 0, 0, 1>>}
PropEdts ==
    {Bytes(n, first, fill) : n \in PropLens, first \in {0, 1, 2, 5, 16, 17, 255}, fill \in {0, 1, 254, 255}}
    \cup DateEdts \cup BitmapEdts
\* an argument of a decoder: the function called and the entry
PropInputs ==
    {[fn |-> f, edata |-> EchonetliteEdata(epc, Len(edt), edt)] :
        f \in {"sm", "superclass", "show"}, epc \in PropEpcs, edt \in PropEdts}

InitProps ==
    /\ DaemonIdle
    /\ StoreIdle
    /\ ErxIdle
    /\ PairAt("idle")
    /\ ReceiveIdle
    /\ fnIn \in PropInputs
    /\ fnOut = NotCalled

\* SM::Properties::try_from(edata)
sm_try_from_call ==
    /\ fnIn.fn = "sm"
    /\ fnOut = NotCalled
    /\ fnOut' = SM_Properties_try_from(fnIn.edata)
    /\ UNCHANGED <<progVars, fnIn, rdPc, rdStream, rdBuf, rdOut>>

\* superclass::Properties::try_from(edata)
superclass_try_from_call ==
    /\ fnIn.fn = "superclass"
    /\ fnOut = NotCalled
    /\ fnOut' = superclass_Properties_try_from(fnIn.edata)
    /\ UNCHANGED <<progVars, fnIn, rdPc, rdStream, rdBuf, rdOut>>

\* edata.show(..) as far as its decoders go
show_call ==
    /\ fnIn.fn = "show"
    /\ fnOut = NotCalled
    /\ fnOut' = Edata_show(fnIn.edata)
    /\ UNCHANGED <<progVars, fnIn, rdPc, rdStream, rdBuf, rdOut>>

NextProps ==
    \/ sm_try_from_call
    \/ superclass_try_from_call
    \/ show_call

SpecProps == InitProps /\ [][NextProps]_vars

(***************************************************************************)
(* commit_historical_cumlative_amount and commit_cumlative_amount_epower     *)
(* taken alone, on the decoded EDT of a 0xE2 or a 0xEA entry                *)
(***************************************************************************)
\* number of values of the short histories given to the function
MaxBuckets == 3
\* the four bytes of a value: 0xFFFFFFFE (no value), 0, 0x100, 0x1234
HistValues == {<<255, 255, 255, 254>>, <<0, 0, 0, 0>>, <<0, 0, 1, 0>>, <<0, 0, 18, 52>>}
RECURSIVE Flatten(_)
Flatten(ss) == IF ss = <<>> THEN <<>> ELSE Head(ss) \o Flatten(Tail(ss))
\* histories of 48 values: none usable; all usable; the first ten usable; every
\* third one missing; only the last one usable
LongHistories ==
    {[k \in 1..48 |-> <<255, 255, 255, 254>>],
     [k \in 1..48 |-> <<0, 0, 1, 0>>],
     [k \in 1..48 |-> IF k <= 10 THEN <<0, 0, 18, 52>> ELSE <<255, 255, 255, 254>>],
     [k \in 1..48 |-> IF k % 3 = 1 THEN <<255, 255, 255, 254>> ELSE <<0, 0, 1, 0>>],
     [k \in 1..48 |-> IF k = 48 THEN <<0, 0, 0, 0>> ELSE <<255, 255, 255, 254>>]}
\* the days ago of the 0xE2 entries, counted from 2024-10-04 or 2024-10-05:
\* today and yesterday, a day of the summer time of 1949, 1948-09-12 or 13
\* (the clock shows midnight of the 12th twice), 1948-05-02 or 03 (the clock
\* skips midnight of the 2nd), a day of local mean time in 1887
HistDaysAgo == {0, 1, 27500, 27781, 27914, 50000}
\* the EDT of the 0xE2 entries: the days ago, then the values
HistEdts ==
    {<<d \div 256, d % 256>> \o Flatten(h) :
        d \in HistDaysAgo, h \in SeqsUpTo(HistValues, MaxBuckets) \cup LongHistories}
\* the EDT of the 0xEA entries, the value 0x100 at: 2024-10-04 12:30:00,
\* 1949-06-20 12:00:00 (summer time), 1948-05-02 00:30:00 (skipped),
\* 1948-09-12 00:30:00 (shown twice), 1887-11-12 00:00:00 (local mean time),
\* 1888-01-01 00:10:00 (shown twice)
FixedTimeEdts ==
    {<<7, 232, 10, 4, 12, 30, 0>>, <<7, 157, 6, 20, 12, 0, 0>>, <<7, 156, 5, 2, 0, 30, 0>>,
     <<7, 156, 9, 12, 0, 30, 0>>, <<7, 95, 11, 12, 0, 0, 0>>, <<7, 96, 1, 1, 0, 10, 0>>}
\* Utc::now(): 14:59 and 15:00 UTC of 2024-10-04, which are 23:59 and 00:00 in Tokyo
HistNows == {NaiveDateTime(20000, 53940), NaiveDateTime(20000, 54000)}
\* the units of the stored profile: 0.1 kWh and 10 kWh
HistUnits == {UnitTable[1], UnitTable[10]}
HistInputs ==
    {[edata |-> e, unit |-> u, now |-> now, sinkOk |-> ok] :
        e \in {EchonetliteEdata(EPC_E2, Len(edt), edt) : edt \in HistEdts}
               \cup {EchonetliteEdata(EPC_EA, 11, t \o <<0, 0, 1, 0>>) : t \in FixedTimeEdts},
        u \in HistUnits, now \in HistNows, ok \in BOOLEAN}

InitHist ==
    /\ DaemonIdle
    /\ StoreIdle
    /\ ErxIdle
    /\ PairAt("idle")
    /\ ReceiveIdle
    /\ fnIn \in HistInputs
    /\ fnOut = NotCalled

\* the arm HistoricalCumlativeAmount of commit_to_database on an entry 0xE2,
\* and what the receiver does with its result
hist_commit_call ==
    /\ fnOut = NotCalled
    /\ fnIn.edata.epc = EPC_E2
    /\ \E dec \in {HistoricalCumlativeAmount_try_from(fnIn.edata)} :
         \E res \in {commit_historical_cumlative_amount(dec.val, fnIn.unit, fnIn.now, fnIn.sinkOk)} :
            fnOut' = [st |-> res.st, rows |-> res.rows, written |-> res.written,
                      receiver |-> receiver_after_commit(res)]
    /\ UNCHANGED <<progVars, fnIn, rdPc, rdStream, rdBuf, rdOut>>

\* the arm CumlativeAmountsOfPowerAtFixedTime of commit_to_database on an
\* entry 0xEA, and what the receiver does with its result
fixed_time_commit_call ==
    /\ fnOut = NotCalled
    /\ fnIn.edata.epc = EPC_EA
    /\ \E dec \in {CumlativeAmountsOfPowerAtFixedTime_try_from(fnIn.edata)} :
         \E res \in {commit_cumlative_amount_epower(fnIn.unit, dec.val, fnIn.sinkOk)} :
            fnOut' = [st |-> res.st, rows |-> res.rows, written |-> res.written,
                      receiver |-> receiver_after_commit(res)]
    /\ UNCHANGED <<progVars, fnIn, rdPc, rdStream, rdBuf, rdOut>>

NextHist == hist_commit_call \/ fixed_time_commit_call

SpecHist == InitHist /\ [][NextHist]_vars

(***************************************************************************)
(* skstack::receive taken alone: its caller calls it again and again on a   *)
(* stream of lines and read timeouts                                       *)
(***************************************************************************)
\* what one call of read_line gives: a line with its line end, or the error TimedOut
Line(text) == [kind |-> "line", text |-> text]
ReadTimedOut == [kind |-> "TimedOut", text |-> <<>>]
\* the error receive returns to its caller on a timed-out read
ErrTimedOut == [kind |-> "TimedOut"]

\* the pieces a stream is made of: a complete record; a complete record with
\* a read timeout after its line k; a stray line; a read timeout
Record(r) == [piece |-> "record", rec |-> r, k |-> 0, text |-> <<>>]
Split(r, k) == [piece |-> "split", rec |-> r, k |-> k, text |-> <<>>]
Stray(text) == [piece |-> "stray", rec |-> SkVoid, k |-> 0, text |-> text]
Quiet == [piece |-> "quiet", rec |-> SkVoid, k |-> 0, text |-> <<>>]

\* the echo of a command, and the first line of an EPANDESC whose other lines never come
EchoLine == <<"S", "K", "S", "R", "E", "G", " ", "S", "F", "E", " ", "0", "\r", "\n">>
TruncatedLine == <<"E", "P", "A", "N", "D", "E", "S", "C", "\r", "\n">>

StreamEpandesc == SkEpandesc(59, 9, 43981, <<"1", "2", "3", "4", "5", "6", "7", "8", "A", "B", "C", "D", "A", "B", "C", "D">>, 132, <<"1", "2", "3", "4", "A", "B", "C", "D">>)
StreamRecords == {SkOk, SkEvent(33, MeterAddr, 2), StreamEpandesc}
Pieces ==
    {Record(r) : r \in StreamRecords}
    \cup {Split(StreamEpandesc, k) : k \in {1, 4}}
    \cup {Stray(EchoLine), Stray(TruncatedLine), Quiet}

\* what read_line gives for a piece
ItemsOf(c) ==
    LET lines == [i \in 1..Len(SerLines(c.rec)) |-> Line(SerLines(c.rec)[i])]
    IN CASE c.piece = "record" -> lines
         [] c.piece = "split" -> SubSeq(lines, 1, c.k) \o <<ReadTimedOut>> \o SubSeq(lines, c.k + 1, Len(lines))
         [] c.piece = "stray" -> <<Line(c.text)>>
         [] OTHER -> <<ReadTimedOut>>

RECURSIVE StreamOf(_)
StreamOf(cs) == IF cs = <<>> THEN <<>> ELSE ItemsOf(Head(cs)) \o StreamOf(Tail(cs))

InitReceive ==
    /\ DaemonIdle
    /\ StoreIdle
    /\ ErxIdle
    /\ PairAt("idle")
    /\ fnIn \in SeqsUpTo(Pieces, MaxChunks)
    /\ fnOut = NotCalled
    /\ rdPc = "caller"
    /\ rdStream = StreamOf(fnIn)
    /\ rdBuf = <<>>
    /\ rdOut = <<>>

\* the caller calls receive: `let mut linebuf = Vec::<String>::new()`
receive_call ==
    /\ rdPc = "caller"
    /\ rdStream # <<>>
    /\ rdPc' = "loop"
    /\ rdBuf' = <<>>
    /\ UNCHANGED <<progVars, fnIn, fnOut, rdStream, rdOut>>

\* receive returns res: linebuf is a local of the call and is dropped with it
receive_return(res) ==
    /\ rdPc' = "caller"
    /\ rdOut' = Append(rdOut, res)
    /\ rdBuf' = <<>>

\* linebuf left as it is after a parse error
linebuf_keep(buf) == buf

\* `linebuf.clear()` after a parse error
linebuf_clear(buf) == <<>>

\* one iteration of the loop of receive: read_line with `?`, push, parse_rxd
\* of linebuf.concat(); Ok returns, Incomplete goes on, an Error clears linebuf
receive_read_line ==
    /\ rdPc = "loop"
    /\ rdStream # <<>>
    /\ rdStream' = Tail(rdStream)
    /\ IF Head(rdStream).kind = "TimedOut" THEN receive_return(ErrTimedOut)
       ELSE \E buf \in {Append(rdBuf, Head(rdStream).text)} :
              \E parsed \in {parse_rxd(Concat(buf))} :
                 IF parsed.st = "Ok" THEN receive_return(parsed.val)
                 ELSE IF parsed.st = "Incomplete" THEN rdBuf' = buf /\ UNCHANGED <<rdPc, rdOut>>
                 ELSE rdBuf' = linebuf_clear(buf) /\ UNCHANGED <<rdPc, rdOut>>
    /\ UNCHANGED <<progVars, fnIn, fnOut>>

\* the stream has ended: the read of receive times out
receive_quiet ==
    /\ rdPc = "loop"
    /\ rdStream = <<>>
    /\ receive_return(ErrTimedOut)
    /\ UNCHANGED <<progVars, fnIn, fnOut, rdStream>>

NextReceive ==
    \/ receive_call
    \/ receive_read_line
    \/ receive_quiet

SpecReceive == InitReceive /\ [][NextReceive]_vars

(***************************************************************************)
(* the IPv6 link-local address of the meter, from its MAC address, as the   *)
(* daemon and the pairing program compute it. A u64 is the text of its      *)
(* hexadecimal digits without leading zeros; a u128 is 32 digits, each a    *)
(* number 0..15, most significant first                                    *)
(***************************************************************************)
\* `x as u128` of an unsigned value of at most w digits, w of the 32 digits used
Widen(d, w) == [k \in 1..32 |-> IF k <= 32 - Len(Low(d, w)) THEN 0 ELSE DigitVal(Low(d, w)[k - (32 - Len(Low(d, w)))])]

\* bit b (0..3) of a digit
DigitBit(a, b) == (a \div (2 ^ b)) % 2
\* ^ and | of two digits
DigitXor(a, b) ==
    ((DigitBit(a, 3) + DigitBit(b, 3)) % 2) * 8 + ((DigitBit(a, 2) + DigitBit(b, 2)) % 2) * 4
    + ((DigitBit(a, 1) + DigitBit(b, 1)) % 2) * 2 + ((DigitBit(a, 0) + DigitBit(b, 0)) % 2)
DigitOr(a, b) ==
    (IF DigitBit(a, 3) + DigitBit(b, 3) > 0 THEN 8 ELSE 0) + (IF DigitBit(a, 2) + DigitBit(b, 2) > 0 THEN 4 ELSE 0)
    + (IF DigitBit(a, 1) + DigitBit(b, 1) > 0 THEN 2 ELSE 0) + (IF DigitBit(a, 0) + DigitBit(b, 0) > 0 THEN 1 ELSE 0)
\* ^, | and << 64 of u128
u128_xor(x, y) == [k \in 1..32 |-> DigitXor(x[k], y[k])]
u128_or(x, y) == [k \in 1..32 |-> DigitOr(x[k], y[k])]
u128_shl64(x) == [k \in 1..32 |-> IF k <= 16 THEN x[k + 16] ELSE 0]

\* Ipv6Addr::from_bits: eight groups of 16 bits, the most significant first
Ipv6Addr_from_bits(x) ==
    [g \in 1..8 |-> x[4 * g - 3] * 4096 + x[4 * g - 2] * 256 + x[4 * g - 1] * 16 + x[4 * g]]

\* the literals 0xFE80_0000_0000_0000u128 and 0x0200_0000_0000_0000u128
LinkLocalPrefix == Widen(<<"F", "E", "8", "0">> \o Chars(12, "0"), 16)
UniversalLocalBit == Widen(<<"2">> \o Chars(14, "0"), 16)

\* sender of the daemon with the bit left as it is in the MAC address
daqd_sender_plain(mac_address) ==
    Ipv6Addr_from_bits(u128_or(u128_shl64(LinkLocalPrefix), Widen(mac_address, 16)))

\* sender of exec_data_acquisition:
\* 0xFE80_0000_0000_0000u128 << 64 | (mac_address as u128 ^ 0x0200_0000_0000_0000u128)
daqd_sender(mac_address) ==
    Ipv6Addr_from_bits(u128_or(u128_shl64(LinkLocalPrefix), u128_xor(Widen(mac_address, 16), UniversalLocalBit)))

\* sender of pairing:
\* 0xFE80_0000_0000_0000u128 << 64 | (epandesc.addr as u128 ^ 0x0200_0000_0000_0000u128)
pairing_sender(addr) ==
    Ipv6Addr_from_bits(u128_or(u128_shl64(LinkLocalPrefix), u128_xor(Widen(addr, 16), UniversalLocalBit)))

\* the MAC addresses: every first octet before two tails, and 0
SenderMacs ==
    {Canon(<<HexChar[a], HexChar[b]>> \o t) :
        a \in 1..16, b \in 1..16,
        t \in {<<"1", "D", "1", "2", "9", "0", "1", "2", "3", "4", "5", "6", "7", "8">>, Chars(14, "F")}}
    \cup {<<>>}

\* the address each program has computed, <<>> before it has
Senders(d, q) == [st |-> "sender", daqd |-> d, pairing |-> q]

InitSender ==
    /\ DaemonIdle
    /\ StoreIdle
    /\ ErxIdle
    /\ PairAt("idle")
    /\ ReceiveIdle
    /\ fnIn \in SenderMacs
    /\ fnOut = Senders(<<>>, <<>>)

\* exec_data_acquisition on mac_address, the value of the stored text
sender_daqd_call ==
    /\ fnOut.daqd = <<>>
    /\ fnOut' = [fnOut EXCEPT !.daqd = daqd_sender(fnIn)]
    /\ UNCHANGED <<progVars, fnIn, rdPc, rdStream, rdBuf, rdOut>>

\* pairing on the addr of the EPANDESC found
sender_pairing_call ==
    /\ fnOut.pairing = <<>>
    /\ fnOut' = [fnOut EXCEPT !.pairing = pairing_sender(fnIn)]
    /\ UNCHANGED <<progVars, fnIn, rdPc, rdStream, rdBuf, rdOut>>

NextSender ==
    \/ sender_daqd_call
    \/ sender_pairing_call

SpecSender == InitSender /\ [][NextSender]_vars

(***************************************************************************)
(* the log line of the command SKSETPWD C: skstack::send traces the text of *)
(* the command, and the subscriber main has installed writes the event.     *)
(* Two runs of the daemon that differ in the password at most are kept side *)
(* by side                                                                 *)
(***************************************************************************)
\* characters are Unicode scalar values and bytes are 0..255, both numbers:
\* 13 is \r, 10 is \n, 9 the tab, 34 the double quote, 39 the single quote,
\* 92 the backslash, 35 is #
\* n in lower-case hexadecimal digits without leading zero, as "{:x}" writes it
RECURSIVE lower_hex(_)
lower_hex(n) ==
    (IF n < 16 THEN <<>> ELSE lower_hex(n \div 16))
    \o <<IF n % 16 < 10 THEN 48 + (n % 16) ELSE 87 + (n % 16)>>

\* char::escape_debug_ext on a character up to U+00FF, which is what a byte
\* cast to char is: \0, \t, \r, \n, \', \" and \\ by a backslash; the
\* characters that are not printable (the control characters U+0000..U+001F
\* and U+007F..U+009F, the no-break space and the soft hyphen) by \u{..}
escape_char(ch) ==
    CASE ch = 0 -> <<92, 48>>
      [] ch = 9 -> <<92, 116>>
      [] ch = 13 -> <<92, 114>>
      [] ch = 10 -> <<92, 110>>
      [] ch = 39 -> <<92, 39>>
      [] ch = 34 -> <<92, 34>>
      [] ch = 92 -> <<92, 92>>
      [] ch < 32 \/ ch \in 127..160 \/ ch = 173 -> <<92, 117, 123>> \o lower_hex(ch) \o <<125>>
      [] OTHER -> <<ch>>
\* str::escape_debug
RECURSIVE escape_debug(_)
escape_debug(t) == IF t = <<>> THEN <<>> ELSE escape_char(Head(t)) \o escape_debug(Tail(t))

\* char::encode_utf8: the bytes of a character in a String
encode_utf8(ch) ==
    CASE ch < 128 -> <<ch>>
      [] ch < 2048 -> <<192 + (ch \div 64), 128 + (ch % 64)>>
      [] ch < 65536 -> <<224 + (ch \div 4096), 128 + ((ch \div 64) % 64), 128 + (ch % 64)>>
      [] OTHER -> <<240 + (ch \div 262144), 128 + ((ch \div 4096) % 64), 128 + ((ch \div 64) % 64), 128 + (ch % 64)>>
\* String::as_bytes of the string of the characters t
RECURSIVE as_bytes(_)
as_bytes(t) == IF t = <<>> THEN <<>> ELSE encode_utf8(Head(t)) \o as_bytes(Tail(t))

\* format!("SKSETPWD C {}\r\n", credentials.password) as the bytes given to send
SkSetPwdPattern == <<83, 75, 83, 69, 84, 80, 87, 68, 32, 67, 32>>
sksetpwd_command(password) == SkSetPwdPattern \o as_bytes(password) \o <<13, 10>>

\* char::is_ascii
is_ascii(ch) == ch <= 127

\* the message of the event skstack::send records for the bytes of a command:
\* every byte cast to a char, the chars that are not ASCII left out, the
\* rest through escape_debug
send_trace(command) == escape_debug(SelectSeq(command, is_ascii))

\* Format::default().format_event: level, target and message on one line
\* ("TRACE Tx->: ", the message, a line feed; the time stamp before them is
\* left out)
format_event_default(message) ==
    <<84, 82, 65, 67, 69, 32, 84, 120, 45, 62, 58, 32>> \o message \o <<10>>

\* buf.find(PATTERN): the first position the pattern starts at, counted from
\* 0, or -1
str_find(buf, pat) ==
    LET hits == {i \in 1..(Len(buf) - Len(pat) + 1) : SubSeq(buf, i, i + Len(pat) - 1) = pat}
    IN IF hits = {} THEN 0 - 1 ELSE (CHOOSE i \in hits : \A j \in hits : i <= j) - 1

\* the number of characters MaskingRouteBPasswordFormatter replaces
MaskLen == 12

\* MaskingRouteBPasswordFormatter::format_event: the characters start..end after
\* the first "SKSETPWD C " become "#"
format_event_masking(message) ==
    LET buf == format_event_default(message)
        pos == str_find(buf, SkSetPwdPattern)
        start == pos + Len(SkSetPwdPattern)
        end == IF start + MaskLen <= Len(buf) - 1 THEN start + MaskLen ELSE Len(buf) - 1
    IN IF pos < 0 THEN buf
       ELSE [k \in 1..Len(buf) |-> IF start < k /\ k <= end THEN 35 ELSE buf[k]]

\* what the sink main has selected holds for an event: the journald layer is
\* installed as it comes and records the message of the event; the fmt layer
\* of the standard output has the masking formatter
log_event(layer, message) ==
    IF layer = "journald" THEN message ELSE format_event_masking(message)

\* passwords of twelve characters, Password::from_str taking any twelve:
\* 0123456789 and two of A, z, the double quote, e acute (U+00E9), B, 0, the
\* backslash, the single quote and the tab; and twelve e acute
LogPasswords ==
    {<<48, 49, 50, 51, 52, 53, 54, 55, 56, 57>> \o <<a, b>> : a \in {65, 122, 34, 233}, b \in {66, 48, 92, 39, 9}}
    \cup {Chars(12, 233)}
LogSinks == {"journald", "stdout"}
LogRuns == 1..2

InitLog ==
    /\ DaemonIdle
    /\ StoreIdle
    /\ ErxIdle
    /\ PairAt("idle")
    /\ ReceiveIdle
    /\ fnIn \in [layer : LogSinks, password : [LogRuns -> LogPasswords]]
    /\ fnOut = [st |-> "log", log |-> [i \in LogRuns |-> <<>>]]

\* skstack::send of the command SKSETPWD C in run i, as far as the log goes
send_sksetpwd(i) ==
    /\ fnOut.log[i] = <<>>
    /\ fnOut' = [fnOut EXCEPT !.log[i] = log_event(fnIn.layer, send_trace(sksetpwd_command(fnIn.password[i])))]
    /\ UNCHANGED <<progVars, fnIn, rdPc, rdStream, rdBuf, rdOut>>

NextLog == \E i \in LogRuns : send_sksetpwd(i)

SpecLog == InitLog /\ [][NextLog]_vars

(***************************************************************************)
(* skstack::receive on a reader that reaches its end: after the lines of    *)
(* the stream every read_line gives Ok(0) and leaves the line empty         *)
(***************************************************************************)
\* pieces of the streams that end; the reads at the end of the stream are
\* counted modulo EofReadsModulus
MaxEofChunks == 2
EofReadsModulus == 4
\* what comes before the end: one-line records, stray lines of which one is
\* the first line of an EPANDESC, read timeouts
EofPieces ==
    {Record(SkOk), Record(SkEvent(33, MeterAddr, 2)), Stray(EchoLine), Stray(TruncatedLine), Quiet}
\* the reads at the end of the stream made by the current call of receive
EofReads(n) == [st |-> "eof", reads |-> n]

InitEof ==
    /\ DaemonIdle
    /\ StoreIdle
    /\ ErxIdle
    /\ PairAt("idle")
    /\ fnIn \in SeqsUpTo(EofPieces, MaxEofChunks)
    /\ fnOut = EofReads(0)
    /\ rdPc = "caller"
    /\ rdStream = StreamOf(fnIn)
    /\ rdBuf = <<>>
    /\ rdOut = <<>>

\* the caller calls receive on the reader at its end
receive_call_eof ==
    /\ rdPc = "caller"
    /\ rdStream = <<>>
    /\ rdPc' = "loop"
    /\ rdBuf' = <<>>
    /\ fnOut' = EofReads(0)
    /\ UNCHANGED <<progVars, fnIn, rdStream, rdOut>>

\* what read_line gives at the end of the stream: Ok(0) and an empty line
ReadEof == [kind |-> "eof", text |-> <<>>]

\* `linebuf.push(line)`: an empty line adds nothing to linebuf.concat(), and
\* rdBuf holds linebuf without its empty strings
linebuf_push(buf, line) == IF line = <<>> THEN buf ELSE Append(buf, line)

\* one iteration of the loop of receive on a reader that may be at its end:
\* there read_line gives Ok(0), which `?` lets through, the empty line is
\* pushed and linebuf.concat() is parsed as after any line
receive_read ==
    /\ rdPc = "loop"
    /\ \E item \in {IF rdStream = <<>> THEN ReadEof ELSE Head(rdStream)} :
         /\ rdStream' = (IF rdStream = <<>> THEN rdStream ELSE Tail(rdStream))
         /\ fnOut' = (IF item.kind = "eof" THEN EofReads((fnOut.reads + 1) % EofReadsModulus) ELSE fnOut)
         /\ IF item.kind = "TimedOut" THEN receive_return(ErrTimedOut)
            ELSE \E buf \in {linebuf_push(rdBuf, item.text)} :
                   \E parsed \in {parse_rxd(Concat(buf))} :
                      IF parsed.st = "Ok" THEN receive_return(parsed.val)
                      ELSE IF parsed.st = "Incomplete" THEN rdBuf' = buf /\ UNCHANGED <<rdPc, rdOut>>
                      ELSE rdBuf' = linebuf_clear(buf) /\ UNCHANGED <<rdPc, rdOut>>
    /\ UNCHANGED <<progVars, fnIn>>

NextEof ==
    \/ receive_call
    \/ receive_call_eof
    \/ receive_read

SpecEof == InitEof /\ [][NextEof]_vars

(***************************************************************************)
(* pairing: active_scan, authn::connect, the four property requests          *)
(***************************************************************************)
notPair == <<daemonVars, store, settings, exInput, exOutput, pureVars>>

\* pairing returns res
PairReturn(res) ==
    /\ pPc' = "returned"
    /\ pResult' = res

\* active_scan, command loop: skstack::send(port_writer, command)
scan_send ==
    /\ pPc = "scan_send"
    /\ \E wrote \in BOOLEAN :
         IF wrote
         THEN /\ pSent' = Append(pSent, pairing_sequence[Len(pSent) + 1])
              /\ pPc' = "scan_recv"
              /\ UNCHANGED pResult
         ELSE /\ PairReturn(PErr("Io"))
              /\ UNCHANGED pSent
    /\ UNCHANGED <<pAcked, pLast, scanLog, found, propIdx, unit, coefficient>>
    /\ UNCHANGED notPair

\* active_scan, command loop: skstack::receive and the test for Fail
scan_receive ==
    /\ pPc = "scan_recv"
    /\ \E r \in ScanOutcomes :
         /\ pLast' = Header(r)
         /\ IF scan_ack(r) = "continue"
            THEN /\ pAcked' = pAcked + 1
                 /\ pPc' = IF Len(pSent) < Len(pairing_sequence) THEN "scan_send" ELSE "scan_wait"
                 /\ UNCHANGED pResult
            ELSE /\ PairReturn(PErr(scan_ack(r)))
                 /\ UNCHANGED pAcked
    /\ UNCHANGED <<pSent, scanLog, found, propIdx, unit, coefficient>>
    /\ UNCHANGED notPair

\* active_scan, wait loop; on break active_scan returns Ok(found) to pairing
scan_event ==
    /\ pPc = "scan_wait"
    /\ Len(scanLog) < MaxScanRx
    /\ \E r \in ScanOutcomes :
         /\ pLast' = Header(r)
         /\ scanLog' = Append(scanLog, Header(r))
         /\ found' = IF scan_wait(r) = "push" THEN Append(found, r.code) ELSE found
         /\ CASE scan_wait(r) = "break" -> pPc' = "scanned" /\ UNCHANGED pResult
              [] scan_wait(r) = "Io" -> PairReturn(PErr("Io"))
              [] OTHER -> UNCHANGED <<pPc, pResult>>
    /\ UNCHANGED <<pSent, pAcked, propIdx, unit, coefficient>>
    /\ UNCHANGED notPair

\* pairing: `if let Some(epandesc) = found.first()`; without a descriptor it
\* returns Ok(None), with one it calls authn::connect
pairing_first ==
    /\ pPc = "scanned"
    /\ scanLog' = <<>>
    /\ IF found = <<>>
       THEN PairReturn(pairing_result(found, unit, coefficient))
       ELSE pPc' = "join_send" /\ UNCHANGED pResult
    /\ UNCHANGED <<pSent, pAcked, pLast, found, propIdx, unit, coefficient>>
    /\ UNCHANGED notPair

\* authn::connect called by pairing, command loop: skstack::send
pairing_connect_send ==
    /\ pPc = "join_send"
    /\ \E wrote \in BOOLEAN :
         IF wrote
         THEN /\ pSent' = Append(pSent, connect_command(Len(pSent) - Len(pairing_sequence) + 1))
              /\ pPc' = "join_recv"
              /\ UNCHANGED pResult
         ELSE /\ PairReturn(PErr("Io"))
              /\ UNCHANGED pSent
    /\ UNCHANGED <<pAcked, pLast, scanLog, found, propIdx, unit, coefficient>>
    /\ UNCHANGED notPair

\* authn::connect called by pairing, command loop: skstack::receive and the test for Fail
pairing_connect_receive ==
    /\ pPc = "join_recv"
    /\ \E r \in RxHeaders :
         /\ pLast' = Header(r)
         /\ IF connect_ack(r) = Continue
            THEN /\ pAcked' = pAcked + 1
                 /\ pPc' = IF Len(pSent) < Len(pairing_sequence) + Len(connect_sequence)
                            THEN "join_send" ELSE "join_wait"
                 /\ UNCHANGED pResult
            ELSE /\ PairReturn(PErr(connect_ack(r).err))
                 /\ UNCHANGED pAcked
    /\ UNCHANGED <<pSent, scanLog, found, propIdx, unit, coefficient>>
    /\ UNCHANGED notPair

\* authn::connect called by pairing, event loop after SKJOIN
pairing_connect_event ==
    /\ pPc = "join_wait"
    /\ \E r \in RxHeaders :
         /\ pLast' = Header(r)
         /\ CASE connect_wait(r) = Continue -> UNCHANGED <<pPc, pResult>>
              [] connect_wait(r) = Authn("Ok") -> pPc' = "prop_send" /\ UNCHANGED pResult
              [] OTHER -> PairReturn(PErr(connect_wait(r).err))
    /\ UNCHANGED <<pSent, pAcked, scanLog, found, propIdx, unit, coefficient>>
    /\ UNCHANGED notPair

\* pairing: the Get request for props[propIdx + 1], then the sleep of 5 s
pairing_request ==
    /\ pPc = "prop_send"
    /\ \E wrote \in BOOLEAN :
         IF wrote
         THEN /\ propIdx' = propIdx + 1
              /\ pPc' = "prop_wait"
              /\ UNCHANGED pResult
         ELSE /\ PairReturn(PErr("Io"))
              /\ UNCHANGED propIdx
    /\ UNCHANGED <<pSent, pAcked, pLast, scanLog, found, unit, coefficient>>
    /\ UNCHANGED notPair

\* pairing: one iteration of the wait for the reply; when the wait of the
\* last property ends, the result of pairing
pairing_reply ==
    /\ pPc = "prop_wait"
    /\ \E r \in PairOutcomes :
         LET u == unit \/ (pairing_wait(r) = "decoded" /\ Decodes(r.data, "UnitForCumlativeAmountsPower"))
             k == coefficient \/ (pairing_wait(r) = "decoded" /\ Decodes(r.data, "Coefficient"))
         IN /\ pLast' = Header(r)
            /\ unit' = u
            /\ coefficient' = k
            /\ CASE pairing_wait(r) = "continue" -> UNCHANGED <<pPc, pResult>>
                 [] pairing_wait(r) = "panic" -> PairReturn(PPanic)
                 [] pairing_wait(r) = "Io" -> PairReturn(PErr("Io"))
                 [] OTHER ->
                      IF propIdx < Len(props)
                      THEN pPc' = "prop_send" /\ UNCHANGED pResult
                      ELSE PairReturn(pairing_result(found, u, k))
    /\ UNCHANGED <<pSent, pAcked, scanLog, found, propIdx>>
    /\ UNCHANGED notPair

InitPairing ==
    /\ DaemonIdle
    /\ StoreIdle
    /\ ErxIdle
    /\ PairAt("scan_send")
    /\ PureIdle

NextPairing ==
    \/ scan_send
    \/ scan_receive
    \/ scan_event
    \/ pairing_first
    \/ pairing_connect_send
    \/ pairing_connect_receive
    \/ pairing_connect_event
    \/ pairing_request
    \/ pairing_reply

SpecPairing == InitPairing /\ [][NextPairing]_vars

(***************************************************************************)
(* Properties                                                              *)
(***************************************************************************)
\* the commands of the initialisation sequence in the order the session needs
C1_Commands ==
    <<"SKRESET", "SKSREG SFE 0", "SKSETPWD C", "SKSETRBID", "SKSREG S2", "SKSREG S3", "SKJOIN">>

\* C1: whatever the adapter sends, the commands authn::connect has written are
\* an initial part of SKRESET, SKSREG SFE 0, SKSETPWD C, SKSETRBID, SKSREG S2,
\* SKSREG S3, SKJOIN (none skipped, repeated or reordered), and command k+1 is
\* written only when a record has been received after each of the k before it.
C1_ConnectWritesInOrder ==
    /\ Len(connSent) <= 7
    /\ connSent = SubSeq(C1_Commands, 1, Len(connSent))
    /\ acked <= Len(connSent)
    /\ Len(connSent) <= acked + 1
    /\ pc = "connect_send" => acked = Len(connSent)

\* all seven commands written, each answered
C1_Witness == Len(connSent) = 7 /\ acked = 7 /\ pc = "connect_wait"

\* C2 as stated: whenever connect is about to write command k+1, the record
\* received for command k was an OK.
C2_NextCommandOnlyAfterOk ==
    (pc = "connect_send" /\ Len(connSent) >= 1) => lastRx.kind = "Ok"

\* C2 as amended: whenever connect is about to write command k+1, a record
\* other than FAIL (OK, blank line, EVENT, EPANDESC or ERXUDP) was received for
\* command k, and no read error.
C2_NextCommandOnlyAfterNonFail ==
    (pc = "connect_send" /\ Len(connSent) >= 1) =>
        lastRx.kind \in {"Ok", "Void", "Event", "Epandesc", "Erxudp"}

\* SKJOIN is about to be written and the record taken as the answer to
\* SKSREG S3 was an EVENT
C2_Witness == pc = "connect_send" /\ Len(connSent) = 6 /\ lastRx.kind = "Event"

\* C3: once connect has read a FAIL ERxx, as the answer to a command or while
\* waiting for the join outcome, connect has returned Error::Fail(xx) with that
\* code and is no longer running (it writes nothing more); connect returns
\* Error::Fail only in that case.
C3_FailReturnsItsCode ==
    /\ (lastRx.kind = "Fail" /\ connResult.err # "Ok") =>
          /\ connResult = [err |-> "Fail", code |-> lastRx.code]
          /\ pc \in {"returned", "exited"}
    /\ connResult.err = "Fail" => (lastRx.kind = "Fail" /\ connResult.code \in FailCodes)
    /\ pc \in {"connect_send", "connect_recv", "connect_wait"} => lastRx.kind # "Fail"

\* a FAIL read while waiting for the join outcome, and one read as the answer
\* to a command
C3_Witness ==
    /\ connResult.err = "Fail" /\ connResult.code = 16
    /\ Len(connSent) = 7 /\ acked = 7

\* records and read results the event loop of connect has to ignore
C4_Ignored(r) ==
    \/ r.kind \in {"Void", "Ok", "Epandesc", "Erxudp", "TimedOut"}
    \/ r.kind = "Event" /\ r.code \notin {36, 37}

\* C4: after SKJOIN has been answered, a step of connect that reads a record
\* returns Ok on EVENT 25, PanaSessionDisconnected on EVENT 24 and Fail(code)
\* on FAIL, and on every other record and on a read timeout leaves connect
\* waiting, with no command written.
C4_JoinOutcome ==
    [][(pc = "connect_wait" /\ <<pc, lastRx, connResult>>' # <<pc, lastRx, connResult>>) =>
         LET r == lastRx'
         IN /\ (r.kind = "Event" /\ r.code = 37) =>
                  (pc' = "custom_send" /\ connResult' = [err |-> "Ok", code |-> None])
            /\ (r.kind = "Event" /\ r.code = 36) =>
                  /\ pc' = "returned"
                  /\ connResult' = [err |-> "PanaSessionDisconnected", code |-> None]
                  /\ result' = [err |-> "PanaSessionDisconnected", code |-> None]
            /\ r.kind = "Fail" =>
                  (pc' = "returned" /\ connResult' = [err |-> "Fail", code |-> r.code])
            /\ C4_Ignored(r) => (pc' = "connect_wait" /\ connResult' = connResult)
            /\ pc' = "connect_wait" => C4_Ignored(r)
            /\ connSent' = connSent
      ]_vars

\* connect has succeeded on EVENT 25
C4_Witness ==
    /\ pc = "custom_send" /\ connResult.err = "Ok"
    /\ lastRx.kind = "Event" /\ lastRx.code = 37

\* the EVENT codes on which the receiver ends: 0x24, 0x27, 0x28, 0x29
C5_Terminal == {36, 39, 40, 41}

\* C5: the match of the receiver ends it exactly for the codes 0x24, 0x27, 0x28
\* and 0x29, whatever the parameter; and a step in which the receiver consumes
\* an EVENT ends it with PanaSessionDisconnected if the code is one of those,
\* leaves it reading otherwise, and writes nothing to the sink.
C5_ReceiverEvents ==
    /\ \A code \in 0..255 : \A param \in EventParams :
          receiver_event(code, param) =
              [err |-> IF code \in C5_Terminal THEN "PanaSessionDisconnected" ELSE "continue",
               code |-> None]
    /\ [][\A c \in Cycles :
            (rx[c].st = "recv" /\ rx'[c] # rx[c] /\ rx'[c].last.kind = "Event") =>
               /\ rx'[c].last.code \in C5_Terminal =>
                     /\ rx'[c].st = "done"
                     /\ rx'[c].res = [err |-> "PanaSessionDisconnected", code |-> None]
               /\ rx'[c].last.code \notin C5_Terminal => rx'[c].st = "recv"
               /\ sink' = sink
         ]_vars

\* the receiver has consumed EVENT 26 and goes on reading
C5_Witness ==
    \E c \in Cycles :
        rx[c].st = "recv" /\ rx[c].last.kind = "Event" /\ rx[c].last.code = 38

\* exec_data_acquisition of cycle c has returned and main has gone on to restart
ExecReturned(c) ==
    \/ c < cycle
    \/ c = cycle /\ pc \in {"cooldown", "start"}

\* C6 as stated: once exec_data_acquisition has returned, the transmitter of
\* that cycle writes nothing more to the serial port and the receiver of that
\* cycle reads nothing more.
C6_OtherTaskCancelled ==
    [][\A c \in Cycles :
         ExecReturned(c) =>
            /\ ~(tx[c].st \in {"today", "sleep", "rejoin"} /\ tx'[c].st \in {"sleep", "rejoin"} /\ tx'[c] # tx[c])
            /\ ~(rx[c].st \in {"recv", "commit"} /\ rx'[c].st \in {"recv", "commit", "done"}
                 /\ rx'[c] # rx[c])
      ]_vars

\* C7: while the result of the latest cycle is PanaSessionDisconnected the
\* daemon has not exited: it is matching the result, cooling down or starting
\* the next cycle; and the first command a cycle writes is SKRESET.
C7_SessionLossRestarts ==
    /\ result.err = "PanaSessionDisconnected" => pc \in {"returned", "cooldown", "start"}
    /\ (pc = "connect_recv" /\ Len(connSent) = 1) => connSent[1] = "SKRESET"

\* a second cycle has written its SKRESET
C7_Witness == cycle >= 2 /\ pc = "connect_recv" /\ connSent = <<"SKRESET">>

\* C8 as stated: after an i/o error the daemon does not exit (the supervisor
\* cools down and restarts).
C8_IoErrorRestarts ==
    result.err = "Io" => pc \in {"returned", "cooldown", "start"}

\* C8 as amended: a serial i/o error other than a read timeout raised in the
\* receiver, in the transmitter or during connect ends the cycle with the Io
\* error, and on that result main does not restart: it leaves the loop and
\* returns the failure exit code.
C8_IoErrorExits ==
    /\ result.err = "Io" => pc \in {"returned", "exited"}
    /\ lastRx.kind = "IoError" => (result.err = "Io" /\ pc \in {"returned", "exited"})
    /\ \A c \in Cycles :
          rx[c].last.kind = "IoError" =>
             (rx[c].st = "done" /\ rx[c].res = [err |-> "Io", code |-> None])

\* the daemon has exited on an i/o error raised after the join
C8_Witness == pc = "exited" /\ result.err = "Io" /\ connResult.err = "Ok"

\* C9 as stated: after a FAIL the daemon does not exit (the supervisor cools
\* down and restarts the cycle).
C9_CommandFailRestarts ==
    result.err = "CommandFail" => pc \in {"returned", "cooldown", "start"}

\* C9 as amended: a FAIL consumed by the receiver, or a FAIL answer during
\* connect or to SKSREG S16, ends the cycle with CommandFail(code) carrying the
\* code of the FAIL, and on that result main does not restart: it leaves the
\* loop and returns the failure exit code.
C9_CommandFailExits ==
    /\ result.err = "CommandFail" => (pc \in {"returned", "exited"} /\ result.code \in FailCodes)
    /\ lastRx.kind = "Fail" => result = [err |-> "CommandFail", code |-> lastRx.code]
    /\ \A c \in Cycles :
          rx[c].last.kind = "Fail" =>
             (rx[c].st = "done" /\ rx[c].res = [err |-> "CommandFail", code |-> rx[c].last.code])

\* the daemon has exited on a FAIL that came after the join
C9_Witness ==
    /\ pc = "exited" /\ result = [err |-> "CommandFail", code |-> 16]
    /\ connResult.err = "Ok"

\* C10 as stated: a sink failure while appending property i of a received
\* frame does not abort the batch, the properties i+1..OPC of the frame are
\* still attempted: no receiver has ended on the error of the sink with
\* entries of the frame left unattempted.
C10_BatchNotAborted ==
    \A c \in Cycles :
        (rx[c].st = "done" /\ rx[c].res.err = "Database") => rx[c].rest = <<>>

\* C11 as stated, for a malformed property: handling a received record never
\* ends the receiver otherwise than by a returned error; in particular a
\* property that is malformed is logged and the receiver reads on.
C11_ReceiverSurvivesErrors ==
    \A c \in Cycles : rx[c].res.err # "Panic"

\* an entry whose decoded value commit_to_database writes to the sink
C12_Stored(e) == commit_table(Properties_try_from(e)) # "none"

\* C12 as stated: rx_erxudp hands an entry that is written to the sink to
\* commit_to_database only when the ESV of the frame is 0x72 or 0x73.
C12_OnlyGetResAndInf ==
    (exOutput.done /\ \E i \in 1..Len(exOutput.entries) : C12_Stored(exOutput.entries[i])) =>
        exInput.data.esv \in {114, 115}

\* C12 as amended: for an ERXUDP on port 0x0E1A whose payload decodes, the
\* property entries of the frame are all handed to commit_to_database, in
\* order, whatever the ESV of the frame is; the ESV is not examined.
C12_EsvNotExamined ==
    (exOutput.done /\ exInput.port = 3610 /\ exInput.data.esv \in Esvs) =>
        exOutput.entries = exInput.data.edata

\* a Get_SNA frame (ESV 0x52) whose E7 entry has been handed to commit_to_database
C12_Witness ==
    /\ exOutput.done /\ exInput.data.esv = 82
    /\ exOutput.entries # <<>> /\ exOutput.entries[1] = EchonetliteEdata(EPC_E7, 4, <<0, 0, 1, 244>>)

\* C13: a receiver whose latest record is an ERXUDP for a port other than
\* 0x0E1A (0x02CC included) is reading the next record: it has not ended, and
\* it is not in commit_to_database, where frames are stored, with any entry of
\* that payload.
C13_OtherPortsIgnored ==
    \A c \in Cycles :
        /\ (rx[c].last.kind = "Erxudp" /\ rx[c].last.port # 3610) =>
              (rx[c].st = "recv" /\ rx[c].rest = <<>>)
        /\ rx[c].st = "commit" => (rx[c].last.kind = "Erxudp" /\ rx[c].last.port = 3610)

\* the receiver has consumed an ERXUDP for the PANA port and reads on
C13_Witness ==
    \E c \in Cycles :
        rx[c].st = "recv" /\ rx[c].last.kind = "Erxudp" /\ rx[c].last.port = 716

\* C14: a transmitter is started once per cycle, when the cycle's join and
\* custom command are through; the first thing it writes is the Get request
\* for EPC 0xE2 alone; every later step that writes is the service of one
\* minute tick and writes exactly one SKSENDTO, the Get request for 0xE7 and
\* 0xE8; it writes no SKSENDTO between ticks.
C14_RequestSchedule ==
    [][\A c \in Cycles :
         /\ (tx'[c].st = "today" /\ tx[c].st # "today") =>
               (tx[c].st = "none" /\ c = cycle /\ pc = "custom_recv" /\ tx'[c].wrote = <<>>)
         /\ (tx[c].st = "today" /\ tx'[c].st = "sleep") =>
               (tx'[c].wrote = <<[cmd |-> "SKSENDTO", epcs |-> <<226>>]>> /\ ticks' = ticks)
         /\ (tx[c].st = "sleep" /\ tx'[c].st \in {"sleep", "rejoin"} /\ tx'[c] # tx[c]) =>
               /\ ticks' = ticks + 1
               /\ tx'[c].wrote = <<[cmd |-> "SKSENDTO", epcs |-> <<231, 232>>]>>
         /\ (tx[c].st = "rejoin" /\ tx'[c] # tx[c]) =>
               /\ ticks' = ticks
               /\ \A i \in 1..Len(tx'[c].wrote) : tx'[c].wrote[i].cmd # "SKSENDTO"
         /\ tx'[c].st = "sleep" => tx[c].st \in {"today", "sleep", "rejoin"}
      ]_vars

\* the transmitter of a second cycle has served a tick
C14_Witness ==
    /\ cycle = 2
    /\ tx[2].st = "sleep" /\ ~tx[2].first
    /\ tx[2].wrote = <<[cmd |-> "SKSENDTO", epcs |-> <<231, 232>>]>>

\* C15: SKREJOIN is written only in the service of a minute tick, as the next
\* thing the transmitter writes after that tick's request for 0xE7 and 0xE8,
\* and the service of a tick goes on to it exactly when 630 s or more have
\* passed since the transmitter set out or since the tick of its previous
\* SKREJOIN; so renewals are at least 630 s apart and fewer than 900 s.
C15_RejoinAtSeventyPercent ==
    [][\A c \in Cycles :
         /\ (tx[c].st = "today" /\ tx'[c].st = "sleep") =>
               \A i \in 1..Len(tx'[c].wrote) : tx'[c].wrote[i].cmd # "SKREJOIN"
         /\ (tx[c].st = "sleep" /\ tx'[c].st \in {"sleep", "rejoin"} /\ tx'[c] # tx[c]) =>
               LET elapsed == tx'[c].clock - tx[c].lastRejoin
               IN /\ tx'[c].clock - tx[c].clock \in 1..60
                  /\ \A i \in 1..Len(tx'[c].wrote) : tx'[c].wrote[i].cmd # "SKREJOIN"
                  /\ tx'[c].st = "rejoin" <=> elapsed >= 630
                  /\ tx'[c].st = "rejoin" => elapsed < 900
                  /\ tx'[c].lastRejoin = tx[c].lastRejoin
         /\ (tx'[c] # tx[c] /\ \E i \in 1..Len(tx'[c].wrote) : tx'[c].wrote[i].cmd = "SKREJOIN") =>
               /\ tx[c].st = "rejoin"
               /\ tx[c].wrote = <<[cmd |-> "SKSENDTO", epcs |-> <<231, 232>>]>>
               /\ tx'[c].wrote = <<[cmd |-> "SKREJOIN", epcs |-> <<>>]>>
               /\ tx'[c].clock = tx[c].clock
               /\ tx'[c].lastRejoin = tx[c].clock
         /\ (tx[c].st = "rejoin" /\ tx'[c].st \in Running) =>
               (tx'[c] = tx[c] \/ (tx'[c].st = "sleep" /\ tx'[c].wrote = <<[cmd |-> "SKREJOIN", epcs |-> <<>>]>>))
      ]_vars

\* the transmitter has written its second SKREJOIN
C15_Witness ==
    /\ tx[1].st = "sleep"
    /\ tx[1].lastRejoin >= 1260
    /\ tx[1].clock = tx[1].lastRejoin
    /\ tx[1].wrote = <<[cmd |-> "SKREJOIN", epcs |-> <<>>]>>

\* C16: at most one receiver runs at a time; it reads a record only when no
\* entry of the record before is left to append; while entries are left it
\* reads nothing and takes them one at a time in the order of the frame; and
\* every row the sink gets is the first entry left of the record read last.
C16_SerialInArrivalOrder ==
    [][/\ \A c, d \in Cycles :
            (rx[c].st \in {"recv", "commit"} /\ rx[d].st \in {"recv", "commit"}) => c = d
       /\ \A c \in Cycles :
            /\ rx[c].st = "recv" => rx[c].rest = <<>>
            /\ (rx[c].st \in {"recv", "commit"} /\ rx'[c].st \in {"recv", "commit", "done"}
                  /\ rx'[c].last # rx[c].last) =>
                  (rx[c].st = "recv" /\ sink' = sink)
            /\ (rx[c].st = "commit" /\ rx'[c].st \in {"recv", "commit", "done"} /\ rx'[c] # rx[c]) =>
                  /\ rx'[c].last = rx[c].last
                  /\ rx'[c].rest = Tail(rx[c].rest)
                  /\ sink' \in {sink, sink + 1}
       /\ sink' # sink =>
            \E c \in Cycles :
                /\ rx[c].st = "commit" /\ rx'[c].rest = Tail(rx[c].rest)
                /\ commit_table(Properties_try_from(Head(rx[c].rest))) # "none"
      ]_vars

\* two entries of one frame have been appended and the receiver reads again
C16_Witness ==
    \E c \in Cycles :
        rx[c].st = "recv" /\ rx[c].last.kind = "Erxudp" /\ rx[c].last.port = 3610 /\ sink = 2

\* the descriptors of the EPANDESC records of log, in the order of log
C17_Descs(log) ==
    LET IsDesc(r) == r.kind = "Epandesc"
        de == SelectSeq(log, IsDesc)
    IN [i \in 1..Len(de) |-> de[i].code]

\* a record on which the wait loop of active_scan breaks
C17_Ends(r) == r.kind = "Fail" \/ (r.kind = "Event" /\ r.code # 32)

\* C17 as stated: active_scan returns the descriptors received after the
\* acknowledgement of SKSCAN in arrival order, and it returns on EVENT 0x22.
C17_ScanEndsOnScanComplete ==
    pPc = "scanned" =>
        /\ found = C17_Descs(scanLog)
        /\ scanLog # <<>>
        /\ scanLog[Len(scanLog)] = Rxd("Event", 34, None)

\* C17 amended: while active_scan waits and when it has returned, its list
\* is the descriptors of the EPANDESC records received after the
\* acknowledgement of SKSCAN, in arrival order; it returns at the first
\* record that is a FAIL or an EVENT other than 0x20 (0x22 among them), an
\* empty list when no EPANDESC came before; empty lines, OK, ERXUDP,
\* EVENT 0x20 and read timeouts do not end the wait, and another read error
\* ends it with an error.
C17_ScanEndsOnAnyEvent ==
    /\ pPc \in {"scan_wait", "scanned"} =>
          /\ found = C17_Descs(scanLog)
          /\ \A i \in 1..(Len(scanLog) - 1) : ~C17_Ends(scanLog[i])
          /\ \A i \in 1..Len(scanLog) : scanLog[i].kind # "IoError"
    /\ pPc = "scan_wait" => (scanLog # <<>> => ~C17_Ends(scanLog[Len(scanLog)]))
    /\ pPc = "scanned" => (scanLog # <<>> /\ C17_Ends(scanLog[Len(scanLog)]))
    /\ (pPc = "returned" /\ scanLog # <<>>) =>
          /\ scanLog[Len(scanLog)].kind = "IoError"
          /\ pResult = PErr("Io")

\* a beacon event, then a descriptor, then EVENT 0x22: the scan returned one descriptor
C17_Witness ==
    /\ pPc = "scanned"
    /\ scanLog = <<Rxd("Event", 32, None), Epandesc(1), Rxd("Event", 34, None)>>
    /\ found = <<1>>

\* the commands of active_scan written so far
C18_ScanPart == SubSeq(pSent, 1, IF Len(pSent) < 4 THEN Len(pSent) ELSE 4)

\* C18 as stated: the commands of active_scan are the first four commands of
\* connect (reset, echo off, password, identifier) followed by SKSCAN.
C18_ConnectPrelude ==
    LET stated == SubSeq(connect_sequence, 1, 4) \o <<"SKSCAN">>
    IN /\ Len(C18_ScanPart) <= Len(stated)
       /\ \A i \in 1..Len(C18_ScanPart) : C18_ScanPart[i] = stated[i]

\* C18 amended: active_scan writes SKRESET, SKSETPWD C, SKSETRBID and SKSCAN
\* in that order and no command that disables the echo; each command is
\* written only after the one before was answered by a record other than
\* FAIL; and a FAIL answer makes active_scan return an error without writing
\* another command.
C18_ScanCommands ==
    /\ [](/\ Len(C18_ScanPart) <= Len(pairing_sequence)
          /\ \A i \in 1..Len(C18_ScanPart) : C18_ScanPart[i] = pairing_sequence[i]
          /\ pPc = "scan_send" => (pAcked = Len(pSent) /\ Len(pSent) < Len(pairing_sequence))
          /\ pPc = "scan_recv" => Len(pSent) = pAcked + 1
          /\ pPc \in {"scan_wait", "scanned"} => (pSent = pairing_sequence /\ pAcked = 4))
    /\ [][(pPc = "scan_recv" /\ pLast'.kind = "Fail") =>
              (pPc' = "returned" /\ pResult' = PErr("bail") /\ pSent' = pSent)]_vars

\* the four commands are written and answered, the last answer being OK
C18_Witness ==
    /\ pPc = "scan_wait"
    /\ pSent = pairing_sequence
    /\ pAcked = 4
    /\ pLast.kind = "Ok"
    /\ scanLog = <<>>

\* C19: when the scan found a descriptor and the unit and the coefficient
\* were both decoded from the replies, pairing returns the profile made of the
\* first descriptor, unless a read or a write on the serial port failed.
C19_ProfileWhenUnitAndCoefficient ==
    (pPc = "returned" /\ found # <<>> /\ unit /\ coefficient) =>
        (pResult = PSome(found[1]) \/ pResult.kind = "Err")

\* C20 as stated: once read, the profile in use never changes.
C20_ProfileReadOnce == [][profile # 0 => profile' = profile]_vars

\* C20 amended: the profile in use changes only when a cycle starts, every
\* cycle whose setup succeeds takes the newest row of the settings table at
\* that moment, and a row inserted while a cycle runs leaves the profile of
\* that cycle as it is.
C20_ProfileReadEveryCycle ==
    [][/\ profile' # profile => (pc = "start" /\ pc' = "connect_send")
       /\ (pc = "start" /\ pc' = "connect_send") => (cycle' = cycle + 1 /\ profile' = store)
       /\ store' # store => profile' = profile
      ]_vars

\* the second cycle runs with the row inserted during the first
C20_Witness ==
    /\ cycle = 2
    /\ pc = "connect_recv"
    /\ store = 2
    /\ profile = 2

\* a MAC address that is a hexadecimal 64-bit value as u64::from_str_radix
\* reads one: hexadecimal digits only, at least one, after an optional plus
\* sign, and nothing but zeros before the last sixteen digits
C21_HexU64(m) ==
    \E d \in {m} \cup (IF m # <<>> /\ m[1] = "+" THEN {Tail(m)} ELSE {}) :
        /\ d # <<>>
        /\ \A i \in 1..Len(d) : d[i] \in HexDigits
        /\ \A i \in 1..(Len(d) - 16) : d[i] = "0"

\* settings the claim calls invalid
C21_Invalid(st) ==
    \/ Len(st.RouteBId) # 32
    \/ Len(st.RouteBPassword) # 12
    \/ ~C21_HexU64(st.MacAddress)

C21_Fatal == {"InvalidId", "InvalidPassword", "InvalidMacAddress"}

\* C21: a cycle started on stored settings whose identifier has not 32
\* characters, whose password has not 12 characters or whose MAC address is
\* no hexadecimal 64-bit value returns InvalidId, InvalidPassword or
\* InvalidMacAddress, or the error met before the row is converted (Other for
\* an environment variable that is not set, Database), without having opened
\* the serial port or written a command; main then leaves its loop for the
\* failure exit and never calls exec_data_acquisition again.
C21_InvalidSettingsAreFatal ==
    [][/\ (pc = "start" /\ cycle' = cycle + 1 /\ C21_Invalid(settings)) =>
            /\ pc' = "returned"
            /\ result'.err \in C21_Fatal \cup {"Database", "Other"}
            /\ connSent' = <<>>
            /\ tx'[cycle'].st = "none" /\ rx'[cycle'].st = "none"
       /\ (pc = "returned" /\ result.err \in C21_Fatal \cup {"Database", "Other"}) =>
            (pc' \in {"returned", "exited"} /\ connSent' = connSent /\ cycle' = cycle)
       /\ pc = "exited" => (pc' = "exited" /\ cycle' = cycle /\ connSent' = connSent)
      ]_vars

\* the daemon has exited on a MAC address of seventeen digits, before any write
C21_Witness ==
    /\ pc = "exited"
    /\ cycle = 1
    /\ result.err = "InvalidMacAddress"
    /\ settings.MacAddress = Chars(17, "F")
    /\ connSent = <<>>

\* the lengths of the prefixes of the text of r made of its first k lines,
\* for the k that leave a line out
C24_LineEnds(r) == {Len(Concat(SubSeq(SerLines(r), 1, k))) : k \in 1..(Len(SerLines(r)) - 1)}

\* C24 as stated: parse_rxd returns Incomplete for every strict prefix of
\* the text of a record, and the record with nothing left for the whole text.
C24_PrefixIncomplete ==
    fnOut # NotCalled =>
        IF fnIn.n < Len(Ser(fnIn.rec))
        THEN fnOut.st = "Incomplete"
        ELSE fnOut.st = "Ok" /\ fnOut.val = fnIn.rec /\ fnOut.pos = fnIn.n + 1

\* C24 amended: parse_rxd returns the record with nothing left for the whole
\* text of a record. For a strict prefix it returns Incomplete exactly when
\* the record is an EPANDESC and the prefix is made of its first lines, one
\* at least, each with its line end, followed by nothing or by one blank;
\* for every other strict prefix, those of the one-line records included, it
\* returns Error.
C24_PrefixByLines ==
    fnOut # NotCalled =>
        IF fnIn.n = Len(Ser(fnIn.rec))
        THEN fnOut.st = "Ok" /\ fnOut.val = fnIn.rec /\ fnOut.pos = fnIn.n + 1
        ELSE IF \E e \in C24_LineEnds(fnIn.rec) : fnIn.n \in {e, e + 1}
        THEN fnOut.st = "Incomplete"
        ELSE fnOut.st = "Error"

\* the first four lines of an EPANDESC have been given and the answer is Incomplete
C24_Witness ==
    /\ fnIn.rec.kind = "Epandesc"
    /\ fnIn.n = Len(Concat(SubSeq(SerLines(fnIn.rec), 1, 4)))
    /\ fnOut.st = "Incomplete"

\* the caller has got everything the stream held
C22_Done == rdPc = "caller" /\ rdStream = <<>>

\* the records receive returned to its caller, in order
C22_Returned == SelectSeq(rdOut, LAMBDA r : r.kind # "TimedOut")

\* the complete records the adapter sent, in order
RECURSIVE C22_Sent(_)
C22_Sent(cs) ==
    IF cs = <<>> THEN <<>>
    ELSE (IF Head(cs).piece \in {"record", "split"} THEN <<Head(cs).rec>> ELSE <<>>)
         \o C22_Sent(Tail(cs))

\* C22 as stated: the lines of a record read before a timed-out read stay in
\* the buffer, so that on a stream of complete records and read timeouts,
\* timeouts between the lines of an EPANDESC included, every record is
\* returned by a call of receive, in order.
C22_RecordSurvivesTimeout ==
    (C22_Done /\ \A i \in 1..Len(fnIn) : fnIn[i].piece # "stray")
        => C22_Returned = C22_Sent(fnIn)

\* the records receive returns for a stream: a stray line is dropped; the
\* first line of an EPANDESC that is not continued stays in the buffer until
\* the next line, and is dropped together with it; a record interrupted by a
\* read timeout is dropped
RECURSIVE C23_Expected(_, _)
C23_Expected(cs, pending) ==
    IF cs = <<>> THEN <<>>
    ELSE LET c == Head(cs)
         IN CASE c.piece = "record" ->
                   (IF pending THEN <<>> ELSE <<c.rec>>) \o C23_Expected(Tail(cs), FALSE)
              [] c.piece = "stray" /\ c.text = TruncatedLine ->
                   C23_Expected(Tail(cs), ~pending)
              [] OTHER -> C23_Expected(Tail(cs), FALSE)

\* the number of timed-out reads of the stream
C23_TimedOutReads == Len(SelectSeq(StreamOf(fnIn), LAMBDA it : it.kind = "TimedOut"))

\* C23 as stated: on a stream of complete records, stray lines and read
\* timeouts between them, every stray line is dropped and every complete
\* record is returned, unchanged and in order.
C23_EveryRecordReturned ==
    (C22_Done /\ \A i \in 1..Len(fnIn) : fnIn[i].piece # "split")
        => C22_Returned = C22_Sent(fnIn)

\* C23 amended: receive returns no error for a line that matches no
\* production: its only errors are those of the timed-out reads. A stray line
\* is dropped and the records after it are returned unchanged and in order,
\* unless the stray line is the beginning of an EPANDESC: that line stays in
\* the buffer, the next line is dropped together with it, and when the next
\* line is a record (or the first line of an EPANDESC) that record is not
\* returned. A record with a timed-out read between its lines is not
\* returned either.
C23_StrayLinesDropped ==
    C22_Done =>
        /\ C22_Returned = C23_Expected(fnIn, FALSE)
        /\ Len(rdOut) - Len(C22_Returned) \in {C23_TimedOutReads, C23_TimedOutReads + 1}

\* an echo line, an EPANDESC and an OK have been read: both records are returned
C23_Witness ==
    /\ C22_Done
    /\ fnIn = <<Stray(EchoLine), Record(StreamEpandesc), Record(SkOk)>>
    /\ rdOut = <<StreamEpandesc, SkOk>>

\* the frame of the tests: 10 81 12 34 05 FF 01 02 88 01 62 01 E7 00
C25_TestFrame ==
    EchonetliteFrame(4225, 4660, <<5, 255, 1>>, <<2, 136, 1>>, 98, 1, <<EchonetliteEdata(EPC_E7, 0, <<>>)>>)
C25_TestBytes == <<16, 129, 18, 52, 5, 255, 1, 2, 136, 1, 98, 1, 231, 0>>

\* opc is the number of entries and every pdc is the length of its edt
C25_Consistent(f) ==
    /\ f.opc = Len(f.edata)
    /\ \A i \in 1..Len(f.edata) : f.edata[i].pdc = Len(f.edata[i].edt)

\* C25: bytes that decode to a frame with no byte left over are given back by
\* encoding the decoded frame; a frame whose opc is its number of entries and
\* whose pdc are the lengths of its edt is given back, with every byte read,
\* by decoding its encoding.
C25_RoundTrip ==
    /\ (fnOut # NotCalled /\ fnIn.op = "decode" /\ fnOut.st = "Ok" /\ fnOut.decoded.len = Len(fnIn.bytes))
          => encode_to_vec(fnOut.decoded.val) = fnIn.bytes
    /\ (fnOut # NotCalled /\ fnIn.op = "encode" /\ C25_Consistent(fnIn.frame))
          => borrow_decode_from_slice(fnOut.bytes) = [st |-> "Ok", val |-> fnIn.frame, len |-> Len(fnOut.bytes)]

\* the 14 bytes of the test frame have been decoded to the test frame
C25_Witness ==
    /\ fnIn.op = "decode"
    /\ fnIn.bytes = C25_TestBytes
    /\ fnOut.st = "Ok"
    /\ fnOut.decoded.val = C25_TestFrame
    /\ encode_to_vec(fnOut.decoded.val) = C25_TestBytes

\* C26: a decoded frame has exactly opc entries, each with an edt of exactly
\* pdc bytes; when the payload ends before the entries its opc announces are
\* complete, decoding returns an error and no entry is handed to commit_to_database.
C26_ExactlyOpcEntries ==
    (fnOut # NotCalled /\ fnIn.op = "decode") =>
        /\ fnOut.st = "Ok" =>
              /\ Len(fnOut.decoded.val.edata) = fnOut.decoded.val.opc
              /\ \A i \in 1..Len(fnOut.decoded.val.edata) :
                    Len(fnOut.decoded.val.edata[i].edt) = fnOut.decoded.val.edata[i].pdc
        /\ (C25_Consistent(fnIn.frame) /\ fnIn.n < Len(Frame_encode(fnIn.frame))) =>
              /\ fnOut.st = "UnexpectedEnd"
              /\ fnOut.entries = <<>>

\* a payload of two entries that ends inside the edt of the second has been refused
C26_Witness ==
    /\ fnIn.op = "decode"
    /\ C25_Consistent(fnIn.frame)
    /\ fnIn.frame.opc = 2
    /\ fnIn.frame.edata[2].pdc = 4
    /\ fnIn.n = Len(Frame_encode(fnIn.frame)) - 2
    /\ fnOut.st = "UnexpectedEnd"
    /\ fnOut.entries = <<>>

\* the sum over the entries es of 2 + pdc
RECURSIVE C27_SumPdc(_)
C27_SumPdc(es) == IF es = <<>> THEN 0 ELSE 2 + Head(es).pdc + C27_SumPdc(Tail(es))

\* the bytes b are, entry after entry of es, epc, pdc and exactly pdc bytes of
\* edt, and nothing else
RECURSIVE C27_Emitted(_, _)
C27_Emitted(b, es) ==
    IF es = <<>> THEN b = <<>>
    ELSE /\ Len(b) >= 2 + Head(es).pdc
         /\ b[1] = Head(es).epc
         /\ b[2] = Head(es).pdc
         /\ SubSeq(b, 3, 2 + Head(es).pdc) = Head(es).edt
         /\ C27_Emitted(SubSeq(b, 3 + Head(es).pdc, Len(b)), Tail(es))

\* C27: the encoding of a frame is length-exact. For every frame that is
\* encoded, which has opc entries and pdc bytes of edt in each of them, the
\* encoder emits the 12 bytes of the fields up to opc and then, for each of
\* exactly opc entries, epc, pdc and exactly pdc bytes of edt, with no padding
\* and no framing: the length is 12 plus the sum over the entries of 2 + pdc.
C27_LengthExact ==
    (fnOut # NotCalled /\ fnIn.op = "encode" /\ C25_Consistent(fnIn.frame)) =>
        /\ Len(fnOut.bytes) = 12 + C27_SumPdc(fnIn.frame.edata)
        /\ fnOut.bytes[12] = fnIn.frame.opc
        /\ Len(fnIn.frame.edata) = fnIn.frame.opc
        /\ C27_Emitted(SubSeq(fnOut.bytes, 13, Len(fnOut.bytes)), fnIn.frame.edata)

\* a frame of two entries with four and one bytes of edt has been encoded to 21 bytes
C27_Witness ==
    /\ fnIn.op = "encode"
    /\ C25_Consistent(fnIn.frame)
    /\ fnIn.frame.opc = 2
    /\ fnIn.frame.edata = <<EchonetliteEdata(EPC_E7, 4, <<1, 2, 3, 4>>), EchonetliteEdata(EPC_E1, 1, <<2>>)>>
    /\ fnOut.st = "Ok"
    /\ Len(fnOut.bytes) = 21

\* C28 as stated: a payload whose EHD is not 0x1081 is refused by the decoder
\* and none of its entries is handed to commit_to_database.
C28_OnlyEhd1081 ==
    (fnOut # NotCalled /\ fnIn.op = "decode" /\ Len(fnIn.bytes) >= 2 /\ SubSeq(fnIn.bytes, 1, 2) # <<16, 129>>) =>
        /\ fnOut.st # "Ok"
        /\ fnOut.entries = <<>>

\* C29 as stated: for every EPC and every EDT the decoders of the two classes
\* return Ok or Err and never panic.
C29_DecodersNeverPanic ==
    fnOut # NotCalled => fnOut.st \in {"Ok", "Err"}

\* the EPCs of the catalogue and the class that decodes them
C30_Catalogue(fn) ==
    IF fn = "sm" THEN {EPC_D3, EPC_D7, EPC_E0, EPC_E1, EPC_E2, EPC_E7, EPC_E8, EPC_EA}
    ELSE {EPC_8A, EPC_9F, EPC_D5}

\* the length of the EDT matches the row of the catalogue
C30_LengthMatches(e) ==
    CASE e.epc = EPC_8A -> Len(e.edt) = 3
      [] e.epc = EPC_D3 -> Len(e.edt) \in {0, 1}
      [] e.epc = EPC_D7 -> Len(e.edt) = 1
      [] e.epc = EPC_E0 -> Len(e.edt) = 4
      [] e.epc = EPC_E1 -> Len(e.edt) = 1 /\ e.edt[1] \in {0, 1, 2, 3, 4, 10, 11, 12, 13}
      [] e.epc = EPC_E2 -> Len(e.edt) = 2 + 48 * 4
      [] e.epc = EPC_E7 -> Len(e.edt) = 4
      [] e.epc = EPC_E8 -> Len(e.edt) = 4
      [] e.epc = EPC_EA -> Len(e.edt) = 11
      [] e.epc = EPC_9F -> Len(e.edt) >= 1 /\ (Len(e.edt) = 1 + e.edt[1] \/ Len(e.edt) = 17)
      [] e.epc = EPC_D5 -> Len(e.edt) >= 1 /\ Len(e.edt) = 1 + 3 * e.edt[1]
      [] OTHER -> FALSE

\* C30 as stated: for an EPC of the catalogue the decoder of its class
\* succeeds exactly when the length of the EDT matches its row, and answers
\* the error BadFormat for any other length; for an EPC outside the catalogue
\* it answers another error, UnknownProperty.
C30_OkIffLengthMatches ==
    (fnOut # NotCalled /\ fnIn.fn \in {"sm", "superclass"}) =>
        IF fnIn.edata.epc \in C30_Catalogue(fnIn.fn)
        THEN IF C30_LengthMatches(fnIn.edata) THEN fnOut.st = "Ok"
             ELSE fnOut.st = "Err" /\ fnOut.msg = "BAD"
        ELSE fnOut.st = "Err" /\ fnOut.msg = "UNKNOWN"

\* bit c of byte r of the bitmap that follows the count byte of edt
C31_Bit(edt, r, c) == (edt[r + 2] \div (2 ^ c)) % 2 = 1

\* C31 as stated: the decoder of 0x9F gives, for a count byte N below 16
\* followed by N bytes, those N bytes; for a count byte of 16 or more followed
\* by 16 bytes of bitmap, the EPCs 0x80 + r + 0x10 * c whose bit c of byte r is
\* set, each once, in ascending order.
C31_PropertyMapDecoded ==
    (fnOut # NotCalled /\ fnIn.fn = "superclass" /\ fnIn.edata.epc = EPC_9F /\ Len(fnIn.edata.edt) >= 1) =>
        LET edt == fnIn.edata.edt
        IN /\ (edt[1] < 16 /\ Len(edt) = 1 + edt[1]) =>
                 fnOut.st = "Ok" /\ fnOut.val = Tail(edt)
           /\ (edt[1] >= 16 /\ Len(edt) = 17) =>
                 /\ fnOut.st = "Ok"
                 /\ \A i \in 1..(Len(fnOut.val) - 1) : fnOut.val[i] < fnOut.val[i + 1]
                 /\ \A r \in 0..15, c \in 0..7 :
                       C31_Bit(edt, r, c) <=> \E i \in 1..Len(fnOut.val) : fnOut.val[i] = 128 + r + 16 * c

\* the bitmap half of C31 alone
C31_BitmapDecoded ==
    (fnOut # NotCalled /\ fnIn.fn = "superclass" /\ fnIn.edata.epc = EPC_9F /\ Len(fnIn.edata.edt) = 17
        /\ fnIn.edata.edt[1] >= 16) =>
        /\ fnOut.st = "Ok"
        /\ \A i \in 1..(Len(fnOut.val) - 1) : fnOut.val[i] < fnOut.val[i + 1]
        /\ \A r \in 0..15, c \in 0..7 :
              C31_Bit(fnIn.edata.edt, r, c) <=> \E i \in 1..Len(fnOut.val) : fnOut.val[i] = 128 + r + 16 * c

\* the value of bucket k (0..47) of the EDT of a 0xE2 entry, as a number, and
\* whether it is 0xFFFFFFFE
C32_Bucket(edt, k) == edt[3 + 4 * k] * 16777216 + edt[4 + 4 * k] * 65536 + edt[5 + 4 * k] * 256 + edt[6 + 4 * k]
C32_Missing(edt, k) == SubSeq(edt, 3 + 4 * k, 6 + 4 * k) = <<255, 255, 255, 254>>

\* midnight, on the clock of Tokyo, of the day of now minus the days ago of
\* the EDT; the offsets of Tokyo under which a clock shows it; and, when
\* there is one offset, its moment in UTC
C32_LocalMidnight ==
    NaiveDateTime(plus_seconds(fnIn.now, offset_from_utc_datetime(fnIn.now)).day
                    - (fnIn.edata.edt[1] * 256 + fnIn.edata.edt[2]), 0)
C32_Offsets ==
    {o \in {33539, 32400, 36000} :
        offset_from_utc_datetime(plus_seconds(C32_LocalMidnight, 0 - o)) = o}
C32_Midnight == plus_seconds(C32_LocalMidnight, 0 - (CHOOSE o \in C32_Offsets : TRUE))
\* k half hours after moment t
C32_HalfHours(t, k) == plus_seconds(t, 1800 * k)

\* C32: for an EDT of 2 + 48 * 4 bytes, the clock of Tokyo showing midnight
\* of today minus the days ago at one moment, every bucket k that is not
\* 0xFFFFFFFE is emitted exactly once, at that midnight plus k half hours, in
\* UTC, with kWh = value * unit; the other buckets emit nothing and shift no
\* time, and the emitted times are strictly increasing.
C32_BucketsEmitted ==
    (/\ fnOut # NotCalled /\ fnIn.edata.epc = EPC_E2 /\ Len(fnIn.edata.edt) = 2 + 48 * 4
     /\ Cardinality(C32_Offsets) = 1) =>
        /\ fnOut.st # "Other"
        /\ \A k \in 0..47 :
              IF C32_Missing(fnIn.edata.edt, k)
              THEN \A i \in 1..Len(fnOut.rows) : fnOut.rows[i].recorded_at # C32_HalfHours(C32_Midnight, k)
              ELSE \E i \in 1..Len(fnOut.rows) :
                      /\ fnOut.rows[i] = [recorded_at |-> C32_HalfHours(C32_Midnight, k),
                                          kwh |-> [num |-> C32_Bucket(fnIn.edata.edt, k) * fnIn.unit.num,
                                                   scale |-> fnIn.unit.scale]]
                      /\ \A j \in 1..Len(fnOut.rows) :
                            fnOut.rows[j].recorded_at = C32_HalfHours(C32_Midnight, k) => j = i
        /\ \A i \in 1..(Len(fnOut.rows) - 1) :
              /\ fnOut.rows[i].recorded_at # fnOut.rows[i + 1].recorded_at
              /\ not_after(fnOut.rows[i].recorded_at, fnOut.rows[i + 1].recorded_at)
        /\ fnOut.written \in {fnOut.rows, <<>>}

\* a history of 48 buckets of which every third is missing has been written: 32 rows
C32_Witness ==
    /\ fnOut # NotCalled
    /\ fnIn.edata.epc = EPC_E2
    /\ Len(fnIn.edata.edt) = 2 + 48 * 4
    /\ fnIn.edata.edt[1] * 256 + fnIn.edata.edt[2] = 27500
    /\ fnOut.rows[1].recorded_at \in {NaiveDateTime(0 - 7501, 52200), NaiveDateTime(0 - 7500, 52200)}
    /\ C32_Missing(fnIn.edata.edt, 0)
    /\ ~C32_Missing(fnIn.edata.edt, 1)
    /\ fnOut.st = "Ok"
    /\ Len(fnOut.written) = 32

\* C37 as stated: when the 0xE2 entry has no usable bucket (all are
\* 0xFFFFFFFE, or there is none) nothing is written, the function returns Ok
\* and the receiver keeps running.
C37_EmptyHistoryIsOk ==
    (/\ fnOut # NotCalled
     /\ fnIn.sinkOk
     /\ fnIn.edata.epc = EPC_E2
     /\ \A k \in 0..((Len(fnIn.edata.edt) - 2) \div 4 - 1) : C32_Missing(fnIn.edata.edt, k)) =>
        /\ fnOut.written = <<>>
        /\ fnOut.st = "Ok"
        /\ fnOut.receiver = "running"

\* C38 as stated: smartmeter_transmitter ends only because of a serial write
\* error; when the next scheduled instant is already past as the sleep
\* duration is computed it goes on to a later tick and returns no error.
C38_OnlyWriteErrorEnds ==
    \A c \in Cycles : tx[c].st = "done" => tx[c].res = Error("Io")

\* C39 as stated: once the reader produces no more data skstack::receive
\* returns after finitely many reads: an iteration of its loop at the end of
\* the stream (a read of 0 bytes) returns a record or an error.
C39_ReturnsAtEof ==
    [][(rdPc = "loop" /\ rdStream = <<>>) => rdPc' = "caller"]_vars

\* the MAC address of the input as sixteen digits, and its four groups of 16 bits
C33_Mac == Chars(16 - Len(fnIn), "0") \o fnIn
C33_MacGroup(g) == HexInt(SubSeq(C33_Mac, 4 * g - 3, 4 * g))
\* a group of 16 bits with its bit 9 inverted: bit 1 of the first octet
C33_Flip(n) == IF (n \div 512) % 2 = 0 THEN n + 512 ELSE n - 512

\* C33: for every 64-bit MAC address the link-local address has the upper 64
\* bits fe80:0000:0000:0000 and the lower 64 bits of the MAC address with
\* only bit 1 of its first octet inverted (inverting it again gives the MAC
\* address back), and the daemon and pairing derive the same address.
C33_LinkLocal ==
    /\ \A a \in {fnOut.daqd, fnOut.pairing} \ {<<>>} :
          /\ SubSeq(a, 1, 4) = <<65152, 0, 0, 0>>
          /\ a[5] = C33_Flip(C33_MacGroup(1))
          /\ C33_Flip(a[5]) = C33_MacGroup(1)
          /\ SubSeq(a, 6, 8) = <<C33_MacGroup(2), C33_MacGroup(3), C33_MacGroup(4)>>
    /\ (fnOut.daqd # <<>> /\ fnOut.pairing # <<>>) => fnOut.daqd = fnOut.pairing

\* both programs have the address of the MAC address 001D129012345678:
\* fe80::021d:1290:1234:5678
C33_Witness ==
    /\ fnIn = <<"1", "D", "1", "2", "9", "0", "1", "2", "3", "4", "5", "6", "7", "8">>
    /\ fnOut.daqd = <<65152, 0, 0, 0, 541, 4752, 4660, 22136>>
    /\ fnOut.pairing = fnOut.daqd

\* C34 as stated: the credential never reaches the log: for any two route-B
\* passwords the log of the daemon is the same, on every sink the daemon may
\* select (journald or standard output).
C34_LogSameForAnyPassword ==
    (fnOut.log[1] # <<>> /\ fnOut.log[2] # <<>>) => fnOut.log[1] = fnOut.log[2]

\* the part of C34 that holds: on the standard output, for passwords of
\* letters and digits, the twelve characters after `SKSETPWD C ` are masked
\* and the two logs are the same
C34_StdoutMasksAlphanumeric ==
    (/\ fnIn.layer = "stdout"
     /\ fnOut.log[1] # <<>> /\ fnOut.log[2] # <<>>
     /\ \A i \in LogRuns : \A k \in 1..12 :
           fnIn.password[i][k] \in (48..57) \cup (65..90) \cup (97..122))
        => fnOut.log[1] = fnOut.log[2]

\* C40 as stated: pairing never panics on received data: an ERXUDP read
\* during a property wait whose payload is no decodable frame is skipped or
\* reported as an error value, and pairing still returns a profile,
\* not-found or an error.
C40_PairingNeverPanics ==
    pPc = "returned" => pResult.kind \in {"Some", "None", "Err"}

\* the records the receiver's dispatch acts on: the events of a lost session
\* and the ERXUDP on port 0x0E1A
C36_Dispatched ==
    {r \in RxHeaders : (r.kind = "Event" /\ r.code \in {36, 39, 40, 41}) \/ (r.kind = "Erxudp" /\ r.port = 3610)}

\* C36 as stated: every record delivered after the join (EVENT 25) is handled
\* by the dispatch of the receiver: the one read that follows SKSREG S16
\* consumes and drops no event of a lost session and no ERXUDP on port 0x0E1A.
C36_AckReadDropsNothing ==
    [][\A r \in C36_Dispatched :
         ~(pc = "custom_recv" /\ connResult = Authn("Ok") /\ custom_receive_record(r) /\ pc' = "running")
      ]_vars

\* the receiver has observed the loss of the session, exec_data_acquisition
\* has returned PanaSessionDisconnected and the next cycle has not started:
\* main is matching that result or cooling down after it
C35_SessionLost ==
    result.err = "PanaSessionDisconnected" /\ pc \in {"returned", "cooldown", "start"}

\* C35 as stated: SKSENDTO and SKREJOIN are written only while the session of
\* the current cycle is joined: once the receiver has observed the loss of
\* the session no transmitter writes, until the next cycle has joined.
C35_WritesOnlyWhileJoined ==
    [][C35_SessionLost =>
         \A c \in Cycles : ~(tx[c].st \in {"today", "sleep", "rejoin"} /\ tx'[c].st \in {"sleep", "rejoin"} /\ tx'[c] # tx[c])
      ]_vars

====
